---- MODULE Spec2Model ----
(***************************************************************************)
(* Team X-Ray: expertise aggregation, file ownership, team health and the  *)
(* report generator's recommendations.                                     *)
(*                                                                         *)
(* Three units are modelled, each with a specification of its own:         *)
(*   Spec        the expert identification task (evals/starter.eval.ts)    *)
(*               with the team-health risk score of spec section 4.4;      *)
(*   SpecFiles   the file expert matching task (evals/real-analysis.eval)  *)
(*               with the file ownership mapper of spec section 4.3;       *)
(*   SpecReport  ReportGenerator.generateRecommendations                   *)
(*               (src/core/report-generator.ts).                           *)
(*                                                                         *)
(* JavaScript numbers that the code leaves unrounded are kept as exact     *)
(* fractions [num, den] in lowest terms, so that "is an integer" and       *)
(* "equals round(...)" are statements the model can refute.  (An IEEE      *)
(* double differs from the exact quotient only by rounding error, which    *)
(* never turns a non-integral quotient of these sizes into an integer.)    *)
(***************************************************************************)
EXTENDS Integers, Sequences, FiniteSets, TLC

VARIABLES
    contributors,   \* input.contributors of the expert identification task
    pc,             \* "pending" | "returned" | "threw"
    error,          \* the kind of the exception thrown, or "none"
    sorted,         \* the task's local array `sorted`
    output,         \* the object the task returned, or NoOutput
    riskScore,      \* teamHealthMetrics.knowledgeDistribution.riskScore
    fileChanges,    \* file -> contributors of the snapshot, in insertion order
    filePc,         \* "pending" | "mapped"
    totalFiles,     \* ExpertiseAnalysis.totalFiles
    fileExpertise,  \* ExpertiseAnalysis.fileExpertise
    fileTask,       \* result of the last file expert matching task
    teamHealthMetrics, \* analysis.teamHealthMetrics handed to the report
    reportPc,       \* "pending" | "generated"
    recommendations, \* the array generateRecommendations builds
    commitMessages, \* input.commits of the collaboration tasks
    collabAnalysis, \* result of the collaboration pattern analysis task
    collabDetection, \* result of the team collaboration detection task
    repositoryCommits, \* repositoryData.commits of the expertise analysis task
    analysisTask,   \* result of the expertise analysis task
    analysis,       \* the ExpertiseAnalysis handed to the report generator
    aiCollaborator, \* "available" | "unavailable"
    enrichment,     \* "none" | "done" | "failed"
    html,           \* what the last generateHTMLReport rendered
    csv,            \* what the last generateCSV returned
    token,          \* whether tokenManager.getToken() yields a token
    lastAnalysis,   \* the analysis the analyzer keeps as its last one
    findPc,         \* teamxray.findExpertForFile: "idle" | "finding" | "done" | "failed"
    findPath,       \* its local filePath
    findError,      \* the error it threw: "none" | "TokenError" | "ValidationError"
    displayed,      \* what displayExperts showed
    activity,       \* the RepositoryActivity handed to assemble
    assembled,      \* what assemble returned or threw
    given,          \* the two snapshots as they were handed over
    arrays,         \* the arrays in memory: the snapshots and the tasks' own
    calls,          \* the two invocations of the task: input, position, result
    runs,           \* the runs of teamxray.analyzeRepository: position, analysis, steps
    tree,           \* the analysis treeProvider.refresh was last given
    webview,        \* the analysis webviewProvider.showAnalysisResults last showed
    overviewPc,     \* teamxray.showTeamOverview: "idle" | "prompting" | "shown" | "done"
    overviewChoice, \* what the user answered to its question
    validatorCall,  \* the Validator method called and its arguments
    validatorResult \* what the call returned or threw

expertVars == <<contributors, pc, error, sorted, output, riskScore>>
fileVars == <<fileChanges, filePc, totalFiles, fileExpertise, fileTask>>
reportVars == <<teamHealthMetrics, reportPc, recommendations>>
collabVars == <<commitMessages, collabAnalysis, collabDetection>>
analysisVars == <<repositoryCommits, analysisTask>>
renderVars == <<analysis, aiCollaborator, enrichment, html, csv>>
commandVars == <<token, lastAnalysis, findPc, findPath, findError, displayed>>
assembleVars == <<activity, assembled>>
concurrentVars == <<given, arrays, calls>>
extensionVars == <<runs, tree, webview, overviewPc, overviewChoice>>
validatorVars == <<validatorCall, validatorResult>>
vars == <<expertVars, fileVars, reportVars, collabVars, analysisVars, renderVars,
          commandVars, assembleVars, concurrentVars, extensionVars,
          validatorVars>>

(* What each unit leaves alone. *)
besidesExpert == <<fileVars, reportVars, collabVars, analysisVars, renderVars,
    commandVars, assembleVars,
    concurrentVars,
    extensionVars, validatorVars>>
besidesFiles == <<expertVars, reportVars, collabVars, analysisVars, renderVars,
    commandVars, assembleVars,
    concurrentVars,
    extensionVars, validatorVars>>
besidesReport == <<expertVars, fileVars, collabVars, analysisVars, renderVars,
    commandVars, assembleVars,
    concurrentVars,
    extensionVars, validatorVars>>
besidesCollab == <<expertVars, fileVars, reportVars, analysisVars, renderVars,
    commandVars, assembleVars,
    concurrentVars,
    extensionVars, validatorVars>>
besidesAnalysis == <<expertVars, fileVars, reportVars, collabVars, renderVars,
    commandVars, assembleVars,
    concurrentVars,
    extensionVars, validatorVars>>
besidesRender == <<expertVars, fileVars, reportVars, collabVars, analysisVars,
    commandVars, assembleVars,
    concurrentVars,
    extensionVars, validatorVars>>
besidesCommands == <<expertVars, fileVars, reportVars, collabVars, analysisVars,
    renderVars, assembleVars,
    concurrentVars,
    extensionVars, validatorVars>>
besidesAssemble == <<expertVars, fileVars, reportVars, collabVars, analysisVars,
    renderVars, commandVars,
    concurrentVars,
    extensionVars, validatorVars>>
besidesConcurrent == <<expertVars, fileVars, reportVars, collabVars, analysisVars,
    renderVars, commandVars, assembleVars,
    extensionVars, validatorVars>>
besidesExtension == <<expertVars, fileVars, reportVars, collabVars, analysisVars,
    renderVars, assembleVars, concurrentVars, validatorVars>>
besidesValidator == <<expertVars, fileVars, reportVars, collabVars, analysisVars,
    renderVars, commandVars, assembleVars, concurrentVars, extensionVars>>

----------------------------------------------------------------------------
(* Bounds of the model *)

MaxCommits == 4
MaxTime == 2
MaxFileCommits == 2
MaxMetric == 100
MaxLog == 3

(* Contributor identities, listed in ascending lexicographic order. *)
NameOrder == <<"alice@example.com", "bob@example.com", "carol@example.com">>
Names == {NameOrder[i] : i \in DOMAIN NameOrder}
FileNames == {NameOrder[1], NameOrder[2]}
Paths == {"src/auth/login.ts", "src/ui/Dashboard.tsx"}

NameRank(n) == CHOOSE i \in DOMAIN NameOrder : NameOrder[i] = n

NoOutput == [kind |-> "none"]
Undefined == -1

----------------------------------------------------------------------------
(* Exact fractions *)

RECURSIVE GCD(_, _)
GCD(a, b) == IF b = 0 THEN a ELSE GCD(b, a % b)

Frac(n, d) == LET g == GCD(n, d) IN [num |-> n \div g, den |-> d \div g]
IntVal(k) == [num |-> k, den |-> 1]
FracLess(p, q) == p.num * q.den < q.num * p.den
FracLeq(p, q) == p.num * q.den <= q.num * p.den

----------------------------------------------------------------------------
(* Inputs *)

Contributor(names, maxCommits) ==
    [name : names, commits : 1..maxCommits, lastEdit : 1..MaxTime]

DistinctNames(s) == \A i, j \in DOMAIN s : i # j => s[i].name # s[j].name

ContributorLists(names, maxCommits, minLen, maxLen) ==
    UNION {{s \in [1..n -> Contributor(names, maxCommits)] : DistinctNames(s)}
           : n \in minLen..maxLen}

----------------------------------------------------------------------------
(* Expert identification: evals/starter.eval.ts, "Expert Identification -  *)
(* Basic"                                                                  *)

(* Array.prototype.sort is stable: an element goes behind every element    *)
(* that does not compare after it, so equal commit counts keep their       *)
(* input order.                                                            *)
InsertByCommits(t, x) ==
    LET k == Cardinality({i \in DOMAIN t : t[i].commits >= x.commits})
    IN  SubSeq(t, 1, k) \o <<x>> \o SubSeq(t, k + 1, Len(t))

RECURSIVE SortRec(_)
SortRec(s) ==
    IF s = <<>> THEN <<>>
    ELSE InsertByCommits(SortRec(SubSeq(s, 1, Len(s) - 1)), s[Len(s)])

(* Mutant: a ranking keyed by commit count, which keeps only the first     *)
(* contributor of each count.                                              *)
SortByCommitsDroppingTies(s) ==
    LET keep == {i \in DOMAIN s : \A j \in 1..(i - 1) : s[j].commits # s[i].commits}
        nth(k) == CHOOSE i \in keep : Cardinality({j \in keep : j <= i}) = k
    IN  SortRec([k \in 1..Cardinality(keep) |-> s[nth(k)]])

(* [...input.contributors].sort((a, b) => b.commits - a.commits) *)
SortByCommits(s) == SortRec(s)

(* Mutant: the quotient taken the wrong way round. *)
ExpertiseScoreInverted(c, top) == Frac(top.commits * 100, c.commits)

(* Mutant: the share left as a fraction of 1, not scaled to 100. *)
ExpertiseScoreUnscaled(c, top) == Frac(c.commits, top.commits)

(* score: (c.commits / sorted[0].commits) * 100, not rounded *)
ExpertiseScore(c, top) == Frac(c.commits * 100, top.commits)

(* The task: sorted[0].name of an empty array reads a property of          *)
(* undefined, which throws a TypeError before anything is returned.        *)
ExpertTask(input) ==
    LET s == SortByCommits(input)
    IN  IF Len(s) = 0
        THEN [kind |-> "TypeError"]
        ELSE [kind |-> "ok",
              topExpert |-> s[1].name,
              totalExperts |-> Len(input),
              expertiseScores |->
                  [i \in DOMAIN s |->
                      [name |-> s[i].name, score |-> ExpertiseScore(s[i], s[1])]]]

(* Team Health Evaluator, spec section 4.4: the knowledge concentration    *)
(* risk.  topShare = top / total, fairShare = 1 / n;                       *)
(* 100 * (topShare - fairShare) / (1 - fairShare)                          *)
(*   = 100 * (n * top - total) / (total * (n - 1)), clamped to 0..100;     *)
(* a single contributor is 100 by definition.                              *)
SumCommits(s) ==
    LET RECURSIVE Sum(_)
        Sum(k) == IF k = 0 THEN 0 ELSE s[k].commits + Sum(k - 1)
    IN  Sum(Len(s))

TopCommits(s) == CHOOSE m \in {s[i].commits : i \in DOMAIN s} :
                     \A i \in DOMAIN s : s[i].commits <= m

Clamp(q) == IF q.num < 0 THEN IntVal(0)
            ELSE IF FracLess(IntVal(100), q) THEN IntVal(100) ELSE q

(* Mutant: the top share itself, not its excess over the fair share. *)
RiskScoreOfTopShare(s) ==
    LET n == Len(s)
    IN  IF n = 1 THEN IntVal(100)
        ELSE Clamp(Frac(100 * TopCommits(s), SumCommits(s)))

RiskScore(s) ==
    LET n == Len(s)
    IN  IF n = 1 THEN IntVal(100)
        ELSE Clamp(Frac(100 * (n * TopCommits(s) - SumCommits(s)),
                        SumCommits(s) * (n - 1)))

NoRisk == [num |-> 0, den |-> 0]

----------------------------------------------------------------------------
(* Idle values of the units a specification does not exercise *)

ExpertIdle ==
    /\ contributors = <<>>
    /\ pc = "idle"
    /\ error = "none"
    /\ sorted = <<>>
    /\ output = NoOutput
    /\ riskScore = NoRisk

FileIdle ==
    /\ fileChanges = <<>>
    /\ filePc = "idle"
    /\ totalFiles = 0
    /\ fileExpertise = <<>>
    /\ fileTask = NoOutput

ReportIdle ==
    /\ teamHealthMetrics = [riskScore |-> Undefined, knowledgeSharing |-> Undefined]
    /\ reportPc = "idle"
    /\ recommendations = <<>>

CollabIdle ==
    /\ commitMessages = <<>>
    /\ collabAnalysis = NoOutput
    /\ collabDetection = NoOutput

AnalysisIdle ==
    /\ repositoryCommits = <<>>
    /\ analysisTask = NoOutput

NoAnalysis ==
    [expertProfiles |-> <<>>, fileExpertise |-> <<>>,
     teamHealthMetrics |-> [riskScore |-> Undefined, knowledgeSharing |-> Undefined]]

RenderIdle ==
    /\ analysis = NoAnalysis
    /\ aiCollaborator = "unavailable"
    /\ enrichment = "none"
    /\ html = NoOutput
    /\ csv = NoOutput

CommandsIdle ==
    /\ token = FALSE
    /\ lastAnalysis = NoOutput
    /\ findPc = "idle"
    /\ findPath = <<>>
    /\ findError = "none"
    /\ displayed = NoOutput

AssembleIdle ==
    /\ activity = [contributors |-> <<>>, files |-> <<>>]
    /\ assembled = NoOutput

ConcurrentIdle ==
    /\ given = <<>>
    /\ arrays = <<>>
    /\ calls = <<>>

ExtensionIdle ==
    /\ runs = <<>>
    /\ tree = NoOutput
    /\ webview = NoOutput
    /\ overviewPc = "idle"
    /\ overviewChoice = "none"

ValidatorIdle ==
    /\ validatorCall = NoOutput
    /\ validatorResult = NoOutput

----------------------------------------------------------------------------
(* Specification of the expert identification unit *)

Init ==
    /\ contributors \in ContributorLists(Names, MaxCommits, 0, Len(NameOrder))
    /\ pc = "pending"
    /\ error = "none"
    /\ sorted = <<>>
    /\ output = NoOutput
    /\ riskScore = NoRisk
    /\ FileIdle
    /\ ReportIdle
    /\ CollabIdle
    /\ AnalysisIdle
    /\ RenderIdle
    /\ CommandsIdle
    /\ AssembleIdle
    /\ ConcurrentIdle
    /\ ExtensionIdle
    /\ ValidatorIdle

(* One run of the task on the input. *)
RunExpertTask ==
    /\ pc = "pending"
    /\ LET r == ExpertTask(contributors)
       IN  /\ sorted' = SortByCommits(contributors)
           /\ IF r.kind = "ok"
              THEN /\ pc' = "returned"
                   /\ error' = "none"
                   /\ output' = r
              ELSE /\ pc' = "threw"
                   /\ error' = r.kind
                   /\ output' = NoOutput
    /\ UNCHANGED <<contributors, riskScore, besidesExpert>>

(* The team health evaluation of the snapshot the task succeeded on. *)
EvaluateTeamHealth ==
    /\ pc = "returned"
    /\ riskScore = NoRisk
    /\ riskScore' = RiskScore(contributors)
    /\ UNCHANGED <<contributors, pc, error, sorted, output, besidesExpert>>

Next == RunExpertTask \/ EvaluateTeamHealth

Spec == Init /\ [][Next]_vars

----------------------------------------------------------------------------
(* File expert matching (evals/real-analysis.eval.ts, "File Expert         *)
(* Matching") and the File Ownership Mapper of spec section 4.3            *)

(* The task: sorted[0] of an empty list and sorted[1] of a one-element     *)
(* list are undefined, and reading .commits of undefined throws.  The      *)
(* record keeps the task's local array `sorted` beside what it returns.    *)
FileExpertTask(input) ==
    LET s == SortByCommits(input.contributors)
    IN  IF Len(s) < 2
        THEN [kind |-> "TypeError"]
        ELSE [kind |-> "ok",
              sorted |-> s,
              filePath |-> input.filePath,
              expertName |-> s[1].name,
              confidence |-> Frac(s[1].commits, s[1].commits + s[2].commits),
              totalContributions |-> s[1].commits]

(* Mutant: only the first-ranked contributor of a file is listed. *)
FileOwnershipMapperTopOnly(files) ==
    [i \in DOMAIN files |->
        [filePath |-> files[i].filePath,
         experts |-> SubSeq(SortByCommits(files[i].contributors), 1, 1)]]

(* Mutant: files with a single contributor are left out. *)
FileOwnershipMapperSkippingLoneFiles(files) ==
    LET keep == {i \in DOMAIN files : Len(files[i].contributors) > 1}
        nth(k) == CHOOSE i \in keep : Cardinality({j \in keep : j <= i}) = k
    IN  [k \in 1..Cardinality(keep) |->
            [filePath |-> files[nth(k)].filePath,
             experts |-> SortByCommits(files[nth(k)].contributors)]]

(* One FileExpertise per entry of the file -> contributors map; the        *)
(* candidates of a file are ranked by the matching task's sort.            *)
FileOwnershipMapper(files) ==
    [i \in DOMAIN files |->
        [filePath |-> files[i].filePath,
         experts |-> SortByCommits(files[i].contributors)]]

(* totalFiles: the count of distinct paths of the input (spec 4.6) *)
CountFiles(files) == Cardinality({files[i].filePath : i \in DOMAIN files})

DistinctPaths(f) == \A i, j \in DOMAIN f : i # j => f[i].filePath # f[j].filePath

FileEntry ==
    [filePath : Paths,
     contributors : ContributorLists(FileNames, MaxFileCommits, 1, Cardinality(FileNames))]

FileMaps ==
    UNION {{f \in [1..n -> FileEntry] : DistinctPaths(f)} : n \in 0..Cardinality(Paths)}

InitFiles ==
    /\ fileChanges \in FileMaps
    /\ filePc = "pending"
    /\ totalFiles = 0
    /\ fileExpertise = <<>>
    /\ fileTask = NoOutput
    /\ ExpertIdle
    /\ ReportIdle
    /\ CollabIdle
    /\ AnalysisIdle
    /\ RenderIdle
    /\ CommandsIdle
    /\ AssembleIdle
    /\ ConcurrentIdle
    /\ ExtensionIdle
    /\ ValidatorIdle

MapFiles ==
    /\ filePc = "pending"
    /\ filePc' = "mapped"
    /\ fileExpertise' = FileOwnershipMapper(fileChanges)
    /\ totalFiles' = CountFiles(fileChanges)
    /\ UNCHANGED <<fileChanges, fileTask, besidesFiles>>

RunFileExpertTask ==
    /\ filePc = "mapped"
    /\ fileTask = NoOutput
    /\ \E i \in DOMAIN fileChanges : fileTask' = FileExpertTask(fileChanges[i])
    /\ UNCHANGED <<fileChanges, filePc, totalFiles, fileExpertise, besidesFiles>>

NextFiles == MapFiles \/ RunFileExpertTask

SpecFiles == InitFiles /\ [][NextFiles]_vars

----------------------------------------------------------------------------
(* ReportGenerator.generateRecommendations (src/core/report-generator.ts)  *)

RiskThreshold == 70
SharingThreshold == 50

RiskAdvice == "Implement regular knowledge sharing sessions and documentation sprints"
SharingAdvice == "Establish regular code review rotations and pair programming sessions"
GeneralAdvice ==
    <<"Consider implementing pair programming sessions to distribute knowledge",
      "Document key workflows and architectural decisions",
      "Set up regular technical sharing sessions">>

(* x ?? 0 *)
OrZero(x) == IF x = Undefined THEN 0 ELSE x

(* Mutant: the general advice appended whether or not a rule fired. *)
GenerateRecommendationsAlwaysGeneral(metrics) ==
    LET risk == IF OrZero(metrics.riskScore) > RiskThreshold
                THEN <<RiskAdvice>> ELSE <<>>
        sharing == IF OrZero(metrics.knowledgeSharing) < SharingThreshold
                   THEN <<SharingAdvice>> ELSE <<>>
    IN  risk \o sharing \o GeneralAdvice

(* Mutant: the thresholds themselves fire the rules (>= 70, <= 50). *)
GenerateRecommendationsInclusive(metrics) ==
    LET risk == IF OrZero(metrics.riskScore) >= RiskThreshold
                THEN <<RiskAdvice>> ELSE <<>>
        sharing == IF OrZero(metrics.knowledgeSharing) <= SharingThreshold
                   THEN <<SharingAdvice>> ELSE <<>>
        specific == risk \o sharing
    IN  IF Len(specific) = 0 THEN GeneralAdvice ELSE specific

(* Mutant: the knowledge-sharing rule evaluated before the risk rule. *)
GenerateRecommendationsSharingFirst(metrics) ==
    LET risk == IF OrZero(metrics.riskScore) > RiskThreshold
                THEN <<RiskAdvice>> ELSE <<>>
        sharing == IF OrZero(metrics.knowledgeSharing) < SharingThreshold
                   THEN <<SharingAdvice>> ELSE <<>>
        specific == sharing \o risk
    IN  IF Len(specific) = 0 THEN GeneralAdvice ELSE specific

(* The array `recommendations` as it stands when the function renders it:  *)
(* one <p> per element, in this order.                                     *)
GenerateRecommendations(metrics) ==
    LET risk == IF OrZero(metrics.riskScore) > RiskThreshold
                THEN <<RiskAdvice>> ELSE <<>>
        sharing == IF OrZero(metrics.knowledgeSharing) < SharingThreshold
                   THEN <<SharingAdvice>> ELSE <<>>
        specific == risk \o sharing
    IN  IF Len(specific) = 0 THEN GeneralAdvice ELSE specific

MetricValues == {Undefined} \cup 0..MaxMetric

InitReport ==
    /\ teamHealthMetrics \in [riskScore : MetricValues, knowledgeSharing : MetricValues]
    /\ reportPc = "pending"
    /\ recommendations = <<>>
    /\ ExpertIdle
    /\ FileIdle
    /\ CollabIdle
    /\ AnalysisIdle
    /\ RenderIdle
    /\ CommandsIdle
    /\ AssembleIdle
    /\ ConcurrentIdle
    /\ ExtensionIdle
    /\ ValidatorIdle

RunGenerateRecommendations ==
    /\ reportPc = "pending"
    /\ reportPc' = "generated"
    /\ recommendations' = GenerateRecommendations(teamHealthMetrics)
    /\ UNCHANGED <<teamHealthMetrics, besidesReport>>

NextReport == RunGenerateRecommendations

SpecReport == InitReport /\ [][NextReport]_vars

----------------------------------------------------------------------------
(* Strings.  A string is the sequence of its characters, so that           *)
(* toLowerCase and includes are computed and not assumed.                  *)

UpperCase ==
    <<"A", "B", "C", "D", "E", "F", "G", "H", "I", "J", "K", "L", "M",
      "N", "O", "P", "Q", "R", "S", "T", "U", "V", "W", "X", "Y", "Z">>
LowerCase ==
    <<"a", "b", "c", "d", "e", "f", "g", "h", "i", "j", "k", "l", "m",
      "n", "o", "p", "q", "r", "s", "t", "u", "v", "w", "x", "y", "z">>

ToLowerChar(c) ==
    IF \E i \in DOMAIN UpperCase : UpperCase[i] = c
    THEN LowerCase[CHOOSE i \in DOMAIN UpperCase : UpperCase[i] = c]
    ELSE c

(* String.prototype.toLowerCase *)
ToLowerCase(s) == [i \in DOMAIN s |-> ToLowerChar(s[i])]

(* String.prototype.includes *)
Includes(s, k) ==
    \E i \in 0..(Len(s) - Len(k)) : SubSeq(s, i + 1, i + Len(k)) = k

(* Set.prototype.add on a Set kept as the sequence of its elements in      *)
(* insertion order, which is the order Array.from gives back.              *)
AddToSet(set, x) ==
    IF \E i \in DOMAIN set : set[i] = x THEN set ELSE Append(set, x)

RECURSIVE AddAllToSet(_, _)
AddAllToSet(set, xs) ==
    IF xs = <<>> THEN set
    ELSE AddAllToSet(AddToSet(set, Head(xs)), Tail(xs))

----------------------------------------------------------------------------
(* The collaboration tasks: "Collaboration Pattern Analysis"               *)
(* (evals/real-analysis.eval.ts) and "Team Collaboration Detection"        *)
(* (evals/starter.eval.ts).                                                *)


(* The object collaborationKeywords, its entries in insertion order. *)
CollaborationKeywords ==
    <<[keyword |-> <<"r", "e", "v", "i", "e", "w">>, pattern |-> "code review"],
      [keyword |-> <<"p", "a", "i", "r">>, pattern |-> "pair programming"],
      [keyword |-> <<"t", "h", "a", "n", "k", "s">>, pattern |-> "gratitude/recognition"],
      [keyword |-> <<"h", "e", "l", "p", "e", "d">>, pattern |-> "knowledge sharing"],
      [keyword |-> <<"t", "e", "a", "m">>, pattern |-> "team collaboration"],
      [keyword |-> <<"m", "e", "r", "g", "e", "d">>, pattern |-> "integration work"]>>

(* The array collaborationKeywords of the detection task. *)
DetectionKeywords ==
    <<<<"r", "e", "v", "i", "e", "w">>,
      <<"m", "e", "r", "g", "e">>,
      <<"p", "a", "i", "r">>,
      <<"t", "h", "a", "n", "k", "s">>,
      <<"h", "e", "l", "p", "e", "d">>>>


CommitMessages ==
    {(* "Fixed bug in payment processor" *)
     <<"F", "i", "x", "e", "d", " ", "b", "u", "g", " ", "i", "n", " ",
       "p", "a", "y", "m", "e", "n", "t", " ", "p", "r", "o", "c", "e",
       "s", "s", "o", "r">>,
     (* "Reviewed Alice's PR - looks good!" *)
     <<"R", "e", "v", "i", "e", "w", "e", "d", " ", "A", "l", "i", "c",
       "e", "'", "s", " ", "P", "R", " ", "-", " ", "l", "o", "o", "k",
       "s", " ", "g", "o", "o", "d", "!">>,
     (* "Merged feature branch after testing" *)
     <<"M", "e", "r", "g", "e", "d", " ", "f", "e", "a", "t", "u", "r",
       "e", " ", "b", "r", "a", "n", "c", "h", " ", "a", "f", "t", "e",
       "r", " ", "t", "e", "s", "t", "i", "n", "g">>,
     (* "Merge branch main" *)
     <<"M", "e", "r", "g", "e", " ", "b", "r", "a", "n", "c", "h", " ",
       "m", "a", "i", "n">>,
     (* "Planned with the team" *)
     <<"P", "l", "a", "n", "n", "e", "d", " ", "w", "i", "t", "h", " ",
       "t", "h", "e", " ", "t", "e", "a", "m">>,
     (* "Pair review, THANKS Bob" *)
     <<"P", "a", "i", "r", " ", "r", "e", "v", "i", "e", "w", ",", " ",
       "T", "H", "A", "N", "K", "S", " ", "B", "o", "b">>}

MessageLists == UNION {[1..n -> CommitMessages] : n \in 0..MaxLog}

(* 0 / 0 *)
NaN == [num |-> 0, den |-> 0]

(* m / n as JavaScript divides non-negative integers *)
Divide(m, n) == IF n = 0 THEN (IF m = 0 THEN NaN ELSE [num |-> 1, den |-> 0])
                ELSE Frac(m, n)

(* The patterns one message adds, in the order of the keyword entries. *)
PatternsOf(msg) ==
    LET lower == ToLowerCase(msg)
        Hit(e) == Includes(lower, e.keyword)
        hits == SelectSeq(CollaborationKeywords, Hit)
    IN  [i \in DOMAIN hits |-> hits[i].pattern]

RECURSIVE FoundPatterns(_)
FoundPatterns(commits) ==
    IF commits = <<>> THEN <<>>
    ELSE AddAllToSet(FoundPatterns(SubSeq(commits, 1, Len(commits) - 1)),
                     PatternsOf(commits[Len(commits)]))

(* The counter collaborativeCommits after the forEach. *)
CollaborativeCommits(commits) ==
    Cardinality({i \in DOMAIN commits : PatternsOf(commits[i]) # <<>>})

CollaborationAnalysisTask(input) ==
    [kind |-> "ok",
     collaborationScore |-> Divide(CollaborativeCommits(input), Len(input)),
     patterns |-> FoundPatterns(input),
     totalCommits |-> Len(input),
     collaborativeCommits |-> CollaborativeCommits(input)]

CollaborationDetectionTask(input) ==
    LET Found(keyword) ==
            \E i \in DOMAIN input : Includes(ToLowerCase(input[i]), keyword)
    IN  [kind |-> "ok",
         hasCollaboration |->
             \E i \in DOMAIN input :
                 \E k \in DOMAIN DetectionKeywords :
                     Includes(ToLowerCase(input[i]), DetectionKeywords[k]),
         patterns |-> SelectSeq(DetectionKeywords, Found)]

InitCollab ==
    /\ commitMessages \in MessageLists
    /\ collabAnalysis = NoOutput
    /\ collabDetection = NoOutput
    /\ ExpertIdle
    /\ FileIdle
    /\ ReportIdle
    /\ AnalysisIdle
    /\ RenderIdle
    /\ CommandsIdle
    /\ AssembleIdle
    /\ ConcurrentIdle
    /\ ExtensionIdle
    /\ ValidatorIdle

RunCollaborationAnalysis ==
    /\ collabAnalysis = NoOutput
    /\ collabAnalysis' = CollaborationAnalysisTask(commitMessages)
    /\ UNCHANGED <<commitMessages, collabDetection, besidesCollab>>

RunCollaborationDetection ==
    /\ collabDetection = NoOutput
    /\ collabDetection' = CollaborationDetectionTask(commitMessages)
    /\ UNCHANGED <<commitMessages, collabAnalysis, besidesCollab>>

NextCollab == RunCollaborationAnalysis \/ RunCollaborationDetection

SpecCollab == InitCollab /\ [][NextCollab]_vars

----------------------------------------------------------------------------
(* The "AI Expertise Analysis" task (evals/real-analysis.eval.ts): what it *)
(* derives from repositoryData.commits.  The fields it derives from        *)
(* repositoryData.contributors (topExpert, totalContributors and the       *)
(* insight texts) are covered by the expert identification unit and are    *)
(* left out of the result here.                                            *)


(* The four if statements of the forEach body, in their order. *)
SpecializationRules ==
    <<[keyword |-> <<"a", "u", "t", "h">>, label |-> "Authentication"],
      [keyword |-> <<"s", "e", "c", "u", "r", "i", "t", "y">>, label |-> "Security"],
      [keyword |-> <<"r", "e", "a", "c", "t">>, label |-> "React"],
      [keyword |-> <<"t", "y", "p", "e", "s", "c", "r", "i", "p", "t">>, label |-> "TypeScript"]>>


RepositoryMessages ==
    {(* "Refactor authentication system with improved security" *)
     <<"R", "e", "f", "a", "c", "t", "o", "r", " ", "a", "u", "t", "h",
       "e", "n", "t", "i", "c", "a", "t", "i", "o", "n", " ", "s", "y",
       "s", "t", "e", "m", " ", "w", "i", "t", "h", " ", "i", "m", "p",
       "r", "o", "v", "e", "d", " ", "s", "e", "c", "u", "r", "i", "t",
       "y">>,
     (* "Code review: Helped Bob with async/await patterns" *)
     <<"C", "o", "d", "e", " ", "r", "e", "v", "i", "e", "w", ":", " ",
       "H", "e", "l", "p", "e", "d", " ", "B", "o", "b", " ", "w", "i",
       "t", "h", " ", "a", "s", "y", "n", "c", "/", "a", "w", "a", "i",
       "t", " ", "p", "a", "t", "t", "e", "r", "n", "s">>,
     (* "Add React dashboard components with TypeScript" *)
     <<"A", "d", "d", " ", "R", "e", "a", "c", "t", " ", "d", "a", "s",
       "h", "b", "o", "a", "r", "d", " ", "c", "o", "m", "p", "o", "n",
       "e", "n", "t", "s", " ", "w", "i", "t", "h", " ", "T", "y", "p",
       "e", "S", "c", "r", "i", "p", "t">>,
     (* "Fixed bug in payment processor" *)
     <<"F", "i", "x", "e", "d", " ", "b", "u", "g", " ", "i", "n", " ",
       "p", "a", "y", "m", "e", "n", "t", " ", "p", "r", "o", "c", "e",
       "s", "s", "o", "r">>}

(* A commit of repositoryData.commits; date is the day of its date string. *)
Commit == [message : RepositoryMessages, date : 1..MaxTime]

CommitLogs == UNION {[1..n -> Commit] : n \in 0..MaxLog}

(* The labels one commit adds, in the order of the if statements. *)
LabelsOf(commit) ==
    LET lower == ToLowerCase(commit.message)
        Hit(r) == Includes(lower, r.keyword)
        hits == SelectSeq(SpecializationRules, Hit)
    IN  [i \in DOMAIN hits |-> hits[i].label]

(* The Set specializations after commits.forEach, as Array.from lists it. *)
RECURSIVE DetectSpecializations(_)
DetectSpecializations(log) ==
    IF log = <<>> THEN <<>>
    ELSE AddAllToSet(DetectSpecializations(SubSeq(log, 1, Len(log) - 1)),
                     LabelsOf(log[Len(log)]))

(* commits.filter(...) of the mentoring detection *)
MentoringCommits(log) ==
    LET Mentors(c) ==
            \/ Includes(ToLowerCase(c.message), <<"r", "e", "v", "i", "e", "w">>)
            \/ Includes(ToLowerCase(c.message), <<"h", "e", "l", "p", "e", "d">>)
            \/ Includes(ToLowerCase(c.message),
                        <<"m", "e", "n", "t", "o", "r", "i", "n", "g">>)
    IN  SelectSeq(log, Mentors)

ExpertiseAnalysisTask(log) ==
    [kind |-> "ok",
     hasMentoringBehavior |-> Len(MentoringCommits(log)) > 0,
     specializations |-> DetectSpecializations(log),
     communicationStyle |->
         IF Len(MentoringCommits(log)) > 0
         THEN "Collaborative and supportive"
         ELSE "Focused individual contributor"]

InitAnalysis ==
    /\ repositoryCommits \in CommitLogs
    /\ analysisTask = NoOutput
    /\ ExpertIdle
    /\ FileIdle
    /\ ReportIdle
    /\ CollabIdle
    /\ RenderIdle
    /\ CommandsIdle
    /\ AssembleIdle
    /\ ConcurrentIdle
    /\ ExtensionIdle
    /\ ValidatorIdle

RunExpertiseAnalysis ==
    /\ analysisTask = NoOutput
    /\ analysisTask' = ExpertiseAnalysisTask(repositoryCommits)
    /\ UNCHANGED <<repositoryCommits, besidesAnalysis>>

NextAnalysis == RunExpertiseAnalysis

SpecAnalysis == InitAnalysis /\ [][NextAnalysis]_vars

----------------------------------------------------------------------------
(* ReportGenerator.generateHTMLReport, generateCSV and                     *)
(* generateAnalysisSummary (src/core/report-generator.ts) on a whole       *)
(* ExpertiseAnalysis, and the narrative enrichment of spec section 6.      *)
(* Of the analysis the model keeps expertProfiles, fileExpertise and       *)
(* teamHealthMetrics; repository, totalFiles, totalExperts and             *)
(* managementInsights are only rendered and are left out.                  *)

(* A narrative field the profile does not carry. *)
Absent == "undefined"

(* expertProfiles as the assembler builds them (spec 4.1, 4.6): one per    *)
(* contributor, in ranking order, no narrative field yet.                  *)
ProfileOf(c, top) ==
    [name |-> c.name,
     expertise |-> ExpertiseScore(c, top),
     contributions |-> c.commits,
     lastCommit |-> c.lastEdit,
     communicationStyle |-> Absent,
     workloadIndicator |-> Absent,
     collaborationStyle |-> Absent]

BuildProfiles(s) ==
    LET ranked == SortByCommits(s)
    IN  [i \in DOMAIN ranked |-> ProfileOf(ranked[i], ranked[1])]

(* Array.prototype.sort((a, b) => b.contributions - a.contributions):      *)
(* stable, so profiles of equal contributions keep their order.            *)
InsertByContributions(t, x) ==
    LET k == Cardinality({i \in DOMAIN t : t[i].contributions >= x.contributions})
    IN  SubSeq(t, 1, k) \o <<x>> \o SubSeq(t, k + 1, Len(t))

(* Mutant: a sort that is not stable, equal contributions come out in      *)
(* reverse order.                                                          *)
RECURSIVE SortByContributionsUnstable(_)
SortByContributionsUnstable(profiles) ==
    IF profiles = <<>> THEN <<>>
    ELSE LET t == SortByContributionsUnstable(SubSeq(profiles, 1, Len(profiles) - 1))
             x == profiles[Len(profiles)]
             k == Cardinality({i \in DOMAIN t : t[i].contributions > x.contributions})
         IN  SubSeq(t, 1, k) \o <<x>> \o SubSeq(t, k + 1, Len(t))

RECURSIVE SortByContributions(_)
SortByContributions(profiles) ==
    IF profiles = <<>> THEN <<>>
    ELSE InsertByContributions(
             SortByContributions(SubSeq(profiles, 1, Len(profiles) - 1)),
             profiles[Len(profiles)])

(* generateAnalysisSummary: expertProfiles is the analysis's own array and *)
(* sort works in place, so the array is left in the sorted order.          *)
GenerateAnalysisSummary(a) ==
    LET ranked == SortByContributions(a.expertProfiles)
    IN  [analysis |-> [a EXCEPT !.expertProfiles = ranked],
         text |-> IF ranked = <<>>
                  THEN <<"No team analysis available.">>
                  ELSE <<ranked[1].name,
                         " is the primary contributor and a potential bottleneck for CI/CD expertise.">>]

(* x || '' *)
OrEmpty(x) == IF x = Absent THEN "" ELSE x

(* One row of the experts CSV. *)
ExpertRow(expert) ==
    [name |-> expert.name,
     expertise |-> expert.expertise,
     contributions |-> expert.contributions,
     lastCommit |-> expert.lastCommit,
     communicationStyle |-> OrEmpty(expert.communicationStyle),
     workloadIndicator |-> OrEmpty(expert.workloadIndicator),
     collaborationStyle |-> OrEmpty(expert.collaborationStyle)]

(* One row of the files CSV. *)
FileRow(file) ==
    [filePath |-> file.filePath,
     expertCount |-> Len(file.experts),
     primaryExpert |-> IF file.experts = <<>> THEN "Unknown"
                       ELSE file.experts[1].name]

GenerateCSVResult(a) ==
    [kind |-> "ok",
     experts |-> [i \in DOMAIN a.expertProfiles |-> ExpertRow(a.expertProfiles[i])],
     files |-> [i \in DOMAIN a.fileExpertise |-> FileRow(a.fileExpertise[i])]]

(* Narrative enrichment (spec 6): the AI collaborator's texts attached to  *)
(* a profile.                                                              *)
Narratives ==
    [communicationStyle : {"Collaborative and supportive",
                           "Focused individual contributor"},
     workloadIndicator : {"balanced"},
     collaborationStyle : {"mentor"}]

(* Mutant: an enrichment that also restates the expertise. *)
EnrichProfileRescoring(profile, n) ==
    [profile EXCEPT !.communicationStyle = n.communicationStyle,
                    !.workloadIndicator = n.workloadIndicator,
                    !.collaborationStyle = n.collaborationStyle,
                    !.expertise = IntVal(100)]

EnrichProfile(profile, n) ==
    [profile EXCEPT !.communicationStyle = n.communicationStyle,
                    !.workloadIndicator = n.workloadIndicator,
                    !.collaborationStyle = n.collaborationStyle]

Enrich(a, n) ==
    [a EXCEPT !.expertProfiles =
        [i \in DOMAIN a.expertProfiles |-> EnrichProfile(a.expertProfiles[i], n)]]

(* The analyses handed to the report: profiles of up to three              *)
(* contributors, no file, a file without experts or a file with all of     *)
(* them, and metrics at the ends of the scale or absent.                   *)
RenderInputs ==
    {s \in ContributorLists(Names, MaxFileCommits, 0, Len(NameOrder)) :
        \A i \in DOMAIN s : s[i].lastEdit = 1}

FileExpertiseOver(profiles) ==
    {<<>>,
     <<[filePath |-> "src/auth/login.ts", experts |-> <<>>]>>,
     <<[filePath |-> "src/auth/login.ts", experts |-> profiles]>>}

RenderMetrics == [riskScore : {Undefined, MaxMetric}, knowledgeSharing : {Undefined, MaxMetric}]

InitRender ==
    /\ \E s \in RenderInputs :
         \E m \in RenderMetrics :
           \E f \in FileExpertiseOver(BuildProfiles(s)) :
             analysis = [expertProfiles |-> BuildProfiles(s),
                         fileExpertise |-> f,
                         teamHealthMetrics |-> m]
    /\ aiCollaborator \in {"available", "unavailable"}
    /\ enrichment = "none"
    /\ html = NoOutput
    /\ csv = NoOutput
    /\ ExpertIdle
    /\ FileIdle
    /\ ReportIdle
    /\ CollabIdle
    /\ AnalysisIdle
    /\ CommandsIdle
    /\ AssembleIdle
    /\ ConcurrentIdle
    /\ ExtensionIdle
    /\ ValidatorIdle

(* The template renders the expert cards (line 286) before it calls        *)
(* generateAnalysisSummary (line 357) and generateRecommendations.         *)
GenerateHTMLReport ==
    LET summary == GenerateAnalysisSummary(analysis)
    IN  /\ html' = [kind |-> "ok",
                    experts |-> [i \in DOMAIN analysis.expertProfiles |->
                                    analysis.expertProfiles[i].name],
                    summary |-> summary.text,
                    recommendations |->
                        GenerateRecommendations(summary.analysis.teamHealthMetrics)]
        /\ analysis' = summary.analysis
        /\ UNCHANGED <<aiCollaborator, enrichment, csv, besidesRender>>

GenerateCSV ==
    /\ csv' = GenerateCSVResult(analysis)
    /\ UNCHANGED <<analysis, aiCollaborator, enrichment, html, besidesRender>>

EnrichAnalysis ==
    /\ aiCollaborator = "available"
    /\ enrichment = "none"
    /\ \E n \in Narratives : analysis' = Enrich(analysis, n)
    /\ enrichment' = "done"
    /\ UNCHANGED <<aiCollaborator, html, csv, besidesRender>>

EnrichmentFails ==
    /\ aiCollaborator = "available"
    /\ enrichment = "none"
    /\ enrichment' = "failed"
    /\ UNCHANGED <<analysis, aiCollaborator, html, csv, besidesRender>>

NextRender == GenerateHTMLReport \/ GenerateCSV \/ EnrichAnalysis \/ EnrichmentFails

SpecRender == InitRender /\ [][NextRender]_vars

----------------------------------------------------------------------------
(* The extension's teamxray.findExpertForFile command (extension.ts) with  *)
(* Validator.validateFilePath (utils/validation.ts).  The analyzer behind  *)
(* it is not part of the sources; its findExpertForFile is the query of    *)
(* spec section 6.                                                         *)

Whitespace == {" ", "\t", "\n", "\r"}

(* String.prototype.trim *)
RECURSIVE Trim(_)
Trim(s) ==
    IF s = <<>> THEN s
    ELSE IF Head(s) \in Whitespace THEN Trim(Tail(s))
    ELSE IF s[Len(s)] \in Whitespace THEN Trim(SubSeq(s, 1, Len(s) - 1))
    ELSE s

DotDot == <<".", ".">>

(* Mutant: the check for ".." is left out. *)
ValidateFilePathWithoutDotDot(filePath) ==
    IF filePath = <<>>
    THEN [isValid |-> FALSE, errors |-> <<"File path is required">>]
    ELSE IF Trim(filePath) = <<>>
    THEN [isValid |-> FALSE, errors |-> <<"File path cannot be empty">>]
    ELSE [isValid |-> TRUE, errors |-> <<>>]

(* Validator.validateFilePath.  vscode.workspace.fs.stat returns a promise *)
(* that is not awaited, so the try block completes and the catch never     *)
(* runs.                                                                   *)
ValidateFilePath(filePath) ==
    IF filePath = <<>>
    THEN [isValid |-> FALSE, errors |-> <<"File path is required">>]
    ELSE IF Trim(filePath) = <<>>
    THEN [isValid |-> FALSE, errors |-> <<"File path cannot be empty">>]
    ELSE IF Includes(filePath, DotDot)
    THEN [isValid |-> FALSE,
          errors |-> <<"File path cannot contain \"..\" for security reasons">>]
    ELSE [isValid |-> TRUE, errors |-> <<>>]


(* Paths a file of the workspace can have, and what else the command can   *)
(* be handed.                                                              *)
(* "src/auth/login.ts", "src/ui/Dashboard.tsx" *)
StoredPaths ==
    {<<"s", "r", "c", "/", "a", "u", "t", "h", "/", "l", "o", "g", "i",
       "n", ".", "t", "s">>,
     <<"s", "r", "c", "/", "u", "i", "/", "D", "a", "s", "h", "b", "o",
       "a", "r", "d", ".", "t", "s", "x">>}
(* "README.md", "../secret.txt", "  ", "" *)
FilePaths ==
    StoredPaths \cup
    {<<"R", "E", "A", "D", "M", "E", ".", "m", "d">>,
     <<".", ".", "/", "s", "e", "c", "r", "e", "t", ".", "t", "x", "t">>,
     <<" ", " ">>,
     <<>>}

(* uri?: vscode.Uri and vscode.window.activeTextEditor *)
NoFile == [present |-> FALSE]
FileAt(p) == [present |-> TRUE, fsPath |-> p]
OptionalFiles == {NoFile} \cup {FileAt(p) : p \in FilePaths}

(* The stored last analysis: its fileExpertise, each file with its experts *)
(* in stored order.                                                        *)
StoredExperts == ContributorLists(FileNames, 1, 0, Cardinality(FileNames))
StoredFile == [filePath : StoredPaths, experts : StoredExperts]
StoredAnalyses ==
    {NoOutput} \cup
    {[kind |-> "analysis", fileExpertise |-> f] :
        f \in {g \in UNION {[1..n -> StoredFile] : n \in 0..Cardinality(StoredPaths)} :
                 DistinctPaths(g)}}

(* Mutant: the experts of the file ranked anew, by identity. *)
FindExpertForFileRanked(stored, filePath) ==
    IF stored.kind = "analysis"
       /\ \E i \in DOMAIN stored.fileExpertise :
              stored.fileExpertise[i].filePath = filePath
    THEN LET e == stored.fileExpertise[
                    CHOOSE i \in DOMAIN stored.fileExpertise :
                        stored.fileExpertise[i].filePath = filePath].experts
             nth(k) == CHOOSE i \in DOMAIN e :
                           Cardinality({j \in DOMAIN e :
                               NameRank(e[j].name) <= NameRank(e[i].name)}) = k
         IN  [k \in DOMAIN e |-> e[nth(k)]]
    ELSE <<>>

(* analyzer.findExpertForFile: the experts of that file in the last        *)
(* analysis, as stored; nothing when there is no such file or no analysis. *)
FindExpertForFile(stored, filePath) ==
    IF stored.kind = "analysis"
       /\ \E i \in DOMAIN stored.fileExpertise :
              stored.fileExpertise[i].filePath = filePath
    THEN stored.fileExpertise[
             CHOOSE i \in DOMAIN stored.fileExpertise :
                 stored.fileExpertise[i].filePath = filePath].experts
    ELSE <<>>

(* displayExperts *)
DisplayExperts(experts) ==
    IF Len(experts) > 0
    THEN [kind |-> "quickPick", items |-> experts]
    ELSE [kind |-> "information", items |-> <<>>]

InitCommands ==
    /\ token \in BOOLEAN
    /\ lastAnalysis \in StoredAnalyses
    /\ findPc = "idle"
    /\ findPath = <<>>
    /\ findError = "none"
    /\ displayed = NoOutput
    /\ ExpertIdle
    /\ FileIdle
    /\ ReportIdle
    /\ CollabIdle
    /\ AnalysisIdle
    /\ RenderIdle
    /\ AssembleIdle
    /\ ConcurrentIdle
    /\ ExtensionIdle
    /\ ValidatorIdle

(* The command up to its await of analyzer.findExpertForFile: the token,   *)
(* the choice of the path, the validation.                                 *)
FindExpertCommand ==
    /\ findPc # "finding"
    /\ \E uri \in OptionalFiles, activeEditor \in OptionalFiles :
         IF ~token
         THEN /\ findPc' = "failed"
              /\ findError' = "TokenError"
              /\ findPath' = <<>>
         ELSE IF ~uri.present /\ ~activeEditor.present
         THEN /\ findPc' = "failed"
              /\ findError' = "ValidationError"
              /\ findPath' = <<>>
         ELSE LET filePath == IF uri.present THEN uri.fsPath
                              ELSE activeEditor.fsPath
              IN  IF ~ValidateFilePath(filePath).isValid
                  THEN /\ findPc' = "failed"
                       /\ findError' = "ValidationError"
                       /\ findPath' = filePath
                  ELSE /\ findPc' = "finding"
                       /\ findError' = "none"
                       /\ findPath' = filePath
    /\ UNCHANGED <<token, lastAnalysis, displayed, besidesCommands>>

(* analyzer.findExpertForFile resolves and displayExperts shows the result. *)
FindExpertDisplay ==
    /\ findPc = "finding"
    /\ displayed' = DisplayExperts(FindExpertForFile(lastAnalysis, findPath))
    /\ findPc' = "done"
    /\ UNCHANGED <<token, lastAnalysis, findPath, findError, besidesCommands>>

NextCommands == FindExpertCommand \/ FindExpertDisplay

SpecCommands == InitCommands /\ [][NextCommands]_vars

----------------------------------------------------------------------------
(* The Analysis Assembler of spec sections 4.6 and 7.  No source file      *)
(* holds it; it is put together from the scoring of the expert             *)
(* identification task, the file ownership mapper and the structural       *)
(* check of section 7, which comes first: an activity whose file map       *)
(* names a contributor the contributor map lacks is rejected as a whole.   *)

Identities(a) == {a.contributors[i].name : i \in DOMAIN a.contributors}

(* A file of the file -> contributors map names an identity the            *)
(* contributor map does not hold.                                          *)
Malformed(a) ==
    \E i \in DOMAIN a.files :
        \E j \in DOMAIN a.files[i].contributors :
            a.files[i].contributors[j].name \notin Identities(a)

(* Mutant: an assembler without the structural check. *)
AssembleUnchecked(a) ==
    LET scored == ExpertTask(a.contributors)
    IN  IF scored.kind # "ok" THEN [kind |-> scored.kind]
        ELSE [kind |-> "ok",
              expertProfiles |-> BuildProfiles(a.contributors),
              fileExpertise |-> FileOwnershipMapper(a.files),
              totalFiles |-> CountFiles(a.files)]

Assemble(a) ==
    IF Malformed(a) THEN [kind |-> "MalformedActivityError"]
    ELSE LET scored == ExpertTask(a.contributors)
         IN  IF scored.kind # "ok" THEN [kind |-> scored.kind]
             ELSE [kind |-> "ok",
                   expertProfiles |-> BuildProfiles(a.contributors),
                   fileExpertise |-> FileOwnershipMapper(a.files),
                   totalFiles |-> CountFiles(a.files)]

(* Activities: a contributor map over two identities and a file map over   *)
(* the same two, so that a file can name a contributor the map lacks.      *)
Activities ==
    [contributors :
        {s \in ContributorLists(FileNames, MaxFileCommits, 0, Cardinality(FileNames)) :
            \A i \in DOMAIN s : s[i].lastEdit = 1},
     files :
        {f \in FileMaps :
            \A i \in DOMAIN f : \A j \in DOMAIN f[i].contributors :
                f[i].contributors[j].lastEdit = 1}]

InitAssemble ==
    /\ activity \in Activities
    /\ assembled = NoOutput
    /\ ExpertIdle
    /\ FileIdle
    /\ ReportIdle
    /\ CollabIdle
    /\ AnalysisIdle
    /\ RenderIdle
    /\ CommandsIdle
    /\ ConcurrentIdle
    /\ ExtensionIdle
    /\ ValidatorIdle

RunAssemble ==
    /\ assembled = NoOutput
    /\ assembled' = Assemble(activity)
    /\ UNCHANGED <<activity, besidesAssemble>>

NextAssemble == RunAssemble

SpecAssemble == InitAssemble /\ [][NextAssemble]_vars

----------------------------------------------------------------------------
(* Two invocations of the expert identification task                       *)
(* (evals/starter.eval.ts) in flight together, on the same snapshot or on  *)
(* two.  Arrays live in memory under a name; a task is split at every      *)
(* point where it has built something: the copy [...input.contributors],   *)
(* the sort of that copy, the returned object.  (An async function         *)
(* without await runs to its end, so the program itself interleaves less   *)
(* than this.)                                                             *)

Calls == {"first", "second"}
Snapshots == {"snapshotA", "snapshotB"}

(* The array each call allocates for itself. *)
OwnArray(c) == IF c = "first" THEN "sortedOfFirst" ELSE "sortedOfSecond"

(* Mutant: no copy, `sorted` is the input array itself. *)
CopyOfAliasingInput(c) == calls[c].input

(* [...input.contributors] is a new array, the call's own. *)
CopyOf(c) == OwnArray(c)

SnapshotContents ==
    {s \in ContributorLists(FileNames, MaxFileCommits, 0, Cardinality(FileNames)) :
        \A i \in DOMAIN s : s[i].lastEdit = 1}

InitConcurrent ==
    /\ given \in [Snapshots -> SnapshotContents]
    /\ arrays = [a \in Snapshots \cup {OwnArray(c) : c \in Calls} |->
                    IF a \in Snapshots THEN given[a] ELSE <<>>]
    /\ calls \in [Calls -> [input : Snapshots, pc : {"pending"},
                           sorted : {"none"}, output : {NoOutput}]]
    /\ ExpertIdle
    /\ FileIdle
    /\ ReportIdle
    /\ CollabIdle
    /\ AnalysisIdle
    /\ RenderIdle
    /\ CommandsIdle
    /\ AssembleIdle
    /\ ExtensionIdle
    /\ ValidatorIdle

(* [...input.contributors] *)
StepCopy(c) ==
    /\ calls[c].pc = "pending"
    /\ arrays' = [arrays EXCEPT ![CopyOf(c)] = arrays[calls[c].input]]
    /\ calls' = [calls EXCEPT ![c] = [@ EXCEPT !.pc = "copied", !.sorted = CopyOf(c)]]
    /\ UNCHANGED <<given, besidesConcurrent>>

(* .sort((a, b) => b.commits - a.commits), in place *)
StepSort(c) ==
    /\ calls[c].pc = "copied"
    /\ arrays' = [arrays EXCEPT ![calls[c].sorted] = SortByCommits(@)]
    /\ calls' = [calls EXCEPT ![c] = [@ EXCEPT !.pc = "sorted"]]
    /\ UNCHANGED <<given, besidesConcurrent>>

(* return { topExpert, totalExperts, expertiseScores } *)
StepReturn(c) ==
    /\ calls[c].pc = "sorted"
    /\ LET s == arrays[calls[c].sorted]
           r == IF Len(s) = 0
                THEN [kind |-> "TypeError"]
                ELSE [kind |-> "ok",
                      topExpert |-> s[1].name,
                      totalExperts |-> Len(arrays[calls[c].input]),
                      expertiseScores |->
                          [i \in DOMAIN s |->
                              [name |-> s[i].name,
                               score |-> ExpertiseScore(s[i], s[1])]]]
       IN  calls' = [calls EXCEPT ![c] =
                        [@ EXCEPT !.pc = IF r.kind = "ok" THEN "returned" ELSE "threw",
                                  !.output = r]]
    /\ UNCHANGED <<given, arrays, besidesConcurrent>>

NextConcurrent ==
    \E c \in Calls : StepCopy(c) \/ StepSort(c) \/ StepReturn(c)

SpecConcurrent == InitConcurrent /\ [][NextConcurrent]_vars

----------------------------------------------------------------------------
(* The extension's teamxray.analyzeRepository and teamxray.showTeamOverview *)
(* commands and the end of activate (extension.ts).  The analyzer behind   *)
(* them is not part of the sources: analyzeRepository yields an analysis,  *)
(* yields nothing or throws; saveAnalysis makes its argument the last      *)
(* analysis; getLastAnalysis reads it back.  Every await is a point where  *)
(* another run of a command may continue.                                  *)

AnalyzeRuns == {"first", "second"}

AnalysisOf(r) == [kind |-> "analysis", from |-> r]
EarlierAnalysis == AnalysisOf("earlier")

(* Mutant: the command goes on without a token. *)
EnsureGitHubTokenOptional(tok) == TRUE

(* ensureGitHubToken: whether tokenManager.getToken() gave a token *)
EnsureGitHubToken(tok) == tok

(* analyzer.getLastAnalysis *)
GetLastAnalysis == lastAnalysis

OverviewChoices == {"Analyze Repository", "Cancel", "dismissed"}

(* Mutant: only 'Cancel' keeps the command from starting an analysis. *)
OverviewStartsAnalysisUnlessCancelled(choice) == choice # "Cancel"

(* choice === 'Analyze Repository' *)
OverviewStartsAnalysis(choice) == choice = "Analyze Repository"

IdleRun == [pc |-> "idle", analysis |-> NoOutput, steps |-> <<>>]
Finished == {"idle", "done", "failed"}

InitExtension ==
    /\ token \in BOOLEAN
    /\ lastAnalysis \in {NoOutput, EarlierAnalysis}
    /\ findPc = "idle"
    /\ findPath = <<>>
    /\ findError = "none"
    /\ displayed = NoOutput
    /\ runs = [r \in AnalyzeRuns |-> IdleRun]
    /\ tree = lastAnalysis
    /\ webview = NoOutput
    /\ overviewPc = "idle"
    /\ overviewChoice = "none"
    /\ ExpertIdle
    /\ FileIdle
    /\ ReportIdle
    /\ CollabIdle
    /\ AnalysisIdle
    /\ RenderIdle
    /\ AssembleIdle
    /\ ConcurrentIdle
    /\ ValidatorIdle

(* The command is invoked: it runs up to its await of the token. *)
InvokeAnalyze(r) ==
    /\ runs[r].pc \in Finished
    /\ runs' = [runs EXCEPT ![r] = [IdleRun EXCEPT !.pc = "ensuringToken"]]
    /\ UNCHANGED <<tree, webview, overviewPc, overviewChoice, commandVars,
                   besidesExtension>>

(* ensureGitHubToken returns; with a token analyzer.analyzeRepository is   *)
(* called, without one the command returns after the error message.        *)
EnsureToken(r) ==
    /\ runs[r].pc = "ensuringToken"
    /\ runs' = [runs EXCEPT ![r] =
                  IF EnsureGitHubToken(token)
                  THEN [@ EXCEPT !.pc = "analyzing", !.steps = <<"analyze">>]
                  ELSE [@ EXCEPT !.pc = "done"]]
    /\ UNCHANGED <<tree, webview, overviewPc, overviewChoice, commandVars,
                   besidesExtension>>

(* analyzer.analyzeRepository settles; an analysis is handed to            *)
(* analyzer.saveAnalysis.                                                  *)
AnalyzerSettles(r) ==
    /\ runs[r].pc = "analyzing"
    /\ \E outcome \in {"analysis", "null", "throws"} :
         runs' = [runs EXCEPT ![r] =
                    CASE outcome = "analysis" ->
                           [@ EXCEPT !.pc = "saving", !.analysis = AnalysisOf(r)]
                      [] outcome = "null" -> [@ EXCEPT !.pc = "done"]
                      [] outcome = "throws" -> [@ EXCEPT !.pc = "failed"]]
    /\ UNCHANGED <<tree, webview, overviewPc, overviewChoice, commandVars,
                   besidesExtension>>

(* analyzer.saveAnalysis(analysis) stores the analysis. *)
SaveAnalysis(r) ==
    /\ runs[r].pc = "saving"
    /\ lastAnalysis' = runs[r].analysis
    /\ runs' = [runs EXCEPT ![r] =
                  [@ EXCEPT !.pc = "saved", !.steps = Append(@, "save")]]
    /\ UNCHANGED <<tree, webview, overviewPc, overviewChoice, token, findPc,
                   findPath, findError, displayed, besidesExtension>>

(* The command goes on after the await: treeProvider.refresh(analysis),    *)
(* then webviewProvider.showAnalysisResults(analysis).                     *)
RefreshAndShow(r) ==
    /\ runs[r].pc = "saved"
    /\ tree' = runs[r].analysis
    /\ webview' = runs[r].analysis
    /\ runs' = [runs EXCEPT ![r] =
                  [@ EXCEPT !.pc = "done",
                            !.steps = @ \o <<"refresh", "show">>]]
    /\ UNCHANGED <<overviewPc, overviewChoice, commandVars, besidesExtension>>

(* teamxray.showTeamOverview up to its await of the user's answer. *)
ShowTeamOverview ==
    /\ overviewPc # "prompting"
    /\ overviewChoice' = "none"
    /\ IF GetLastAnalysis # NoOutput
       THEN /\ webview' = GetLastAnalysis
            /\ overviewPc' = "shown"
       ELSE /\ webview' = webview
            /\ overviewPc' = "prompting"
    /\ UNCHANGED <<runs, tree, commandVars, besidesExtension>>

(* The user answers or dismisses the question. *)
OverviewAnswer ==
    /\ overviewPc = "prompting"
    /\ \E choice \in OverviewChoices :
         /\ overviewChoice' = choice
         /\ IF OverviewStartsAnalysis(choice)
            THEN \E r \in AnalyzeRuns :
                    /\ runs[r].pc \in Finished
                    /\ runs' = [runs EXCEPT ![r] =
                                  [IdleRun EXCEPT !.pc = "ensuringToken"]]
            ELSE runs' = runs
    /\ overviewPc' = "done"
    /\ UNCHANGED <<tree, webview, commandVars, besidesExtension>>

NextExtension ==
    \/ \E r \in AnalyzeRuns :
          \/ InvokeAnalyze(r)
          \/ EnsureToken(r)
          \/ AnalyzerSettles(r)
          \/ SaveAnalysis(r)
          \/ RefreshAndShow(r)
    \/ ShowTeamOverview
    \/ OverviewAnswer

SpecExtension == InitExtension /\ [][NextExtension]_vars

----------------------------------------------------------------------------
(* The Validator of utils/validation.ts.  Strings are tuples of characters; *)
(* path is Node's posix path module.                                       *)

MaxPathLen == 5
MaxInputLen == 3

StringsOver(alphabet, maxLen) == UNION {[1..n -> alphabet] : n \in 0..maxLen}

StartsWith(s, prefix) ==
    Len(prefix) <= Len(s) /\ SubSeq(s, 1, Len(prefix)) = prefix

EndsWith(s, suffix) ==
    Len(suffix) <= Len(s) /\ SubSeq(s, Len(s) - Len(suffix) + 1, Len(s)) = suffix

(* path.sep and process.cwd() *)
Sep == <<"/">>
Cwd == <<"/", "2">>

(* The segments of a path between its separators, empty ones included. *)
RECURSIVE Segments(_)
Segments(s) ==
    IF s = <<>> THEN << <<>> >>
    ELSE LET rest == Segments(Tail(s))
         IN  IF <<Head(s)>> = Sep
             THEN << <<>> >> \o rest
             ELSE << <<Head(s)>> \o Head(rest) >> \o Tail(rest)

RECURSIVE JoinSegments(_)
JoinSegments(segs) ==
    IF segs = <<>> THEN <<>>
    ELSE IF Len(segs) = 1 THEN Head(segs)
    ELSE Head(segs) \o Sep \o JoinSegments(Tail(segs))

(* normalizeString of the path module: "" and "." are dropped, ".." takes  *)
(* back the segment before it, or is kept when there is none to take back  *)
(* and the path is relative.                                               *)
RECURSIVE NormalizeInto(_, _, _)
NormalizeInto(res, segs, allowAboveRoot) ==
    IF segs = <<>> THEN res
    ELSE LET seg == Head(segs)
             next ==
                IF seg = <<>> \/ seg = <<".">> THEN res
                ELSE IF seg = DotDot
                THEN IF res # <<>> /\ res[Len(res)] # DotDot
                     THEN SubSeq(res, 1, Len(res) - 1)
                     ELSE IF allowAboveRoot THEN Append(res, seg) ELSE res
                ELSE Append(res, seg)
         IN  NormalizeInto(next, Tail(segs), allowAboveRoot)

NormalizeString(p, allowAboveRoot) ==
    JoinSegments(NormalizeInto(<<>>, Segments(p), allowAboveRoot))

IsAbsolute(p) == StartsWith(p, Sep)

(* path.normalize *)
PathNormalize(p) ==
    IF p = <<>> THEN <<".">>
    ELSE LET n == NormalizeString(p, ~IsAbsolute(p))
             trailing == EndsWith(p, Sep)
         IN  IF n = <<>>
             THEN IF IsAbsolute(p) THEN Sep
                  ELSE IF trailing THEN <<".">> \o Sep ELSE <<".">>
             ELSE (IF IsAbsolute(p) THEN Sep ELSE <<>>) \o n \o
                  (IF trailing THEN Sep ELSE <<>>)

(* path.resolve: the rightmost absolute argument and what follows it, the  *)
(* working directory before them when none is absolute; empty arguments    *)
(* are skipped.                                                            *)
RECURSIVE ResolveOnto(_, _)
ResolveOnto(base, paths) ==
    IF paths = <<>> THEN base
    ELSE LET p == Head(paths)
         IN  ResolveOnto(IF p = <<>> THEN base
                         ELSE IF IsAbsolute(p) THEN p
                         ELSE base \o Sep \o p,
                         Tail(paths))

PathResolve(paths) == Sep \o NormalizeString(ResolveOnto(Cwd, paths), FALSE)

(* Mutant: the prefix is compared without a separator at its end. *)
WithSepOmitted(p) == p

(* resolvedWorkspaceRoot.endsWith(path.sep) ? ... : ... + path.sep *)
WithSep(p) == IF EndsWith(p, Sep) THEN p ELSE p \o Sep

(* Validator.sanitizeFilePath.  Its catch turns an error of the path       *)
(* functions into 'Invalid file path'; they throw only when handed         *)
(* something that is not a string.                                         *)
SanitizeFilePath(filePath, workspaceRoot) ==
    LET resolvedWorkspaceRoot == PathResolve(<<workspaceRoot>>)
        normalized == PathNormalize(filePath)
        resolved == PathResolve(<<resolvedWorkspaceRoot, normalized>>)
        workspaceWithSep == WithSep(resolvedWorkspaceRoot)
        resolvedWithSep == WithSep(resolved)
    IN  IF resolved # resolvedWorkspaceRoot
           /\ ~StartsWith(resolvedWithSep, workspaceWithSep)
        THEN [kind |-> "threw", message |-> "Path traversal detected"]
        ELSE [kind |-> "returned", value |-> resolved]

PathAlphabet == {"/", ".", "w", "2"}
(* "/w", "/w/", "/", "w" *)
WorkspaceRoots == {<<"/", "w">>, <<"/", "w", "/">>, <<"/">>, <<"w">>}

(* const dangerousChars of validateShellInput; its last two entries are a  *)
(* backslash followed by a letter.  The grave accent is written            *)
(* "backtick".                                                             *)
DangerousChars ==
    << <<"&">>, <<"|">>, <<";">>, <<"backtick">>, <<"$">>, <<"(">>, <<")">>, <<"<">>,
       <<">">>, <<"\\", "n">>, <<"\\", "r">> >>

(* Validator.validateShellInput *)
ValidateShellInput(input) ==
    IF input = <<>>
    THEN [isValid |-> FALSE, errors |-> <<"Input is required">>]
    ELSE LET Found(char) == Includes(input, char)
             foundDangerous == SelectSeq(DangerousChars, Found)
         IN  IF Len(foundDangerous) > 0
             THEN [isValid |-> FALSE,
                   errors |-> <<"Input contains potentially dangerous characters">>]
             ELSE [isValid |-> TRUE, errors |-> <<>>]

(* The character class of sanitizeShellInput *)
ShellMetacharacters == {"&", "|", ";", "backtick", "$", "(", ")", ">", "<", "\n", "\r"}

(* Validator.sanitizeShellInput *)
SanitizeShellInput(input) ==
    LET Kept(c) == c \notin ShellMetacharacters
    IN  SelectSeq(input, Kept)

ShellAlphabet == {"a", "n", "\\", "\n", "\r", "&", "$"}

(* token.length < 40 *)
MinTokenLength == 40

GhpPrefix == <<"g", "h", "p", "_">>
PatPrefix == <<"g", "i", "t", "h", "u", "b", "_", "p", "a", "t", "_">>

(* Tokens: none, a short one, and tokens of the least accepted length with *)
(* and without a known prefix.                                             *)
Tokens ==
    {<<>>,
     GhpPrefix \o <<"x">>,
     GhpPrefix \o [i \in 1..(MinTokenLength - Len(GhpPrefix)) |-> "x"],
     PatPrefix \o [i \in 1..(MinTokenLength - Len(PatPrefix)) |-> "x"],
     [i \in 1..MinTokenLength |-> "x"]}

(* What an axios.get of validateGitHubToken can end in: a response with a  *)
(* 2xx status, a rejection carrying the response, or a rejection without   *)
(* one.  The user response says whether the email is public and may carry  *)
(* the x-ratelimit-remaining header.                                       *)
Resolved == 200..299
ApiResponses ==
    [kind : {"response"}, status : {200, 204, 401, 403, 404, 500},
     email : BOOLEAN, remaining : {Absent, "59", "many"}]
        \cup {[kind |-> "network error"]}

(* parseInt(header || '0') *)
ParseRateLimit(header) ==
    CASE header = Absent -> IntVal(0)
      [] header = "59" -> IntVal(59)
      [] OTHER -> NaN

ApiErrorMessage(err) ==
    IF err.kind = "response"
    THEN CASE err.status = 401 -> "Invalid token or token has expired"
           [] err.status = 403 ->
                "Token has insufficient permissions or rate limit exceeded"
           [] err.status = 404 -> "GitHub API endpoint not found"
           [] OTHER -> "GitHub API error"
    ELSE "Network error while validating token"

(* Validator.validateGitHubToken, given what its two requests end in *)
ValidateGitHubToken(tok, userResponse, repoResponse) ==
    LET result == [isValid |-> FALSE, errors |-> <<>>, warnings |-> <<>>,
                   hasRepoAccess |-> FALSE, hasUserAccess |-> FALSE,
                   rateLimitRemaining |-> IntVal(0)]
        Settled(r) == r.kind = "response" /\ r.status \in Resolved
    IN  IF tok = <<>>
        THEN [result EXCEPT !.errors = <<"Token is required">>]
        ELSE IF Len(tok) < MinTokenLength
        THEN [result EXCEPT !.errors = <<"Token appears to be too short">>]
        ELSE
        LET formatWarnings ==
                IF ~StartsWith(tok, GhpPrefix) /\ ~StartsWith(tok, PatPrefix)
                THEN <<"Token format may be incorrect">> ELSE <<>>
            afterFormat == [result EXCEPT !.warnings = formatWarnings]
        IN  IF ~Settled(userResponse)
            THEN [afterFormat EXCEPT !.errors = <<ApiErrorMessage(userResponse)>>]
            ELSE
            LET afterUser ==
                    IF userResponse.status = 200
                    THEN [afterFormat EXCEPT
                            !.hasUserAccess = TRUE,
                            !.rateLimitRemaining =
                                ParseRateLimit(userResponse.remaining),
                            !.warnings =
                                IF ~userResponse.email
                                THEN Append(@, "GitHub user email is not public")
                                ELSE @]
                    ELSE afterFormat
            IN  IF ~Settled(repoResponse)
                THEN [afterUser EXCEPT !.errors = <<ApiErrorMessage(repoResponse)>>]
                ELSE
                LET hasRepoAccess == repoResponse.status = 200
                IN  [afterUser EXCEPT
                        !.hasRepoAccess = hasRepoAccess,
                        !.isValid = afterUser.hasUserAccess /\ hasRepoAccess,
                        !.errors =
                            IF ~hasRepoAccess
                            THEN <<"Token does not have repository access permissions">>
                            ELSE <<>>]

(* Validator.validateNumericRange; value is a number or NaN *)
ValidateNumericRange(value, min, max) ==
    IF value = NaN
    THEN [isValid |-> FALSE, errors |-> <<"must be a valid number">>]
    ELSE IF FracLess(value, IntVal(min)) \/ FracLess(IntVal(max), value)
    THEN [isValid |-> FALSE, errors |-> <<"must be between min and max">>]
    ELSE [isValid |-> TRUE, errors |-> <<>>]

(* What new URL(url) gives: its protocol and its hostname, lower-cased, or *)
(* a TypeError.  Hosts are names or dotted quads as written; user names,   *)
(* IPv6 literals and numeric forms of an address are not modelled.         *)
FirstIndexOf(s, cs) ==
    IF \E i \in DOMAIN s : s[i] \in cs
    THEN CHOOSE i \in DOMAIN s : s[i] \in cs /\ \A j \in 1..(i - 1) : s[j] \notin cs
    ELSE Len(s) + 1

ParseURL(url) ==
    LET colon == FirstIndexOf(url, {":"})
        scheme == ToLowerCase(SubSeq(url, 1, colon - 1))
        rest == SubSeq(url, colon + 1, Len(url))
        special == scheme \in {<<"h", "t", "t", "p", "s">>, <<"h", "t", "t", "p">>,
                               <<"f", "t", "p">>}
        authority == SubSeq(rest, 3, Len(rest))
        host == ToLowerCase(SubSeq(authority, 1,
                                   FirstIndexOf(authority, {"/", "?", "#", ":"}) - 1))
    IN  IF colon = 1 \/ colon > Len(url)
           \/ \E i \in DOMAIN scheme :
                 scheme[i] \notin {LowerCase[k] : k \in DOMAIN LowerCase}
        THEN [kind |-> "TypeError"]
        ELSE IF ~StartsWith(rest, <<"/", "/">>)
        THEN IF special THEN [kind |-> "TypeError"]
             ELSE [kind |-> "url", protocol |-> scheme \o <<":">>, hostname |-> <<>>]
        ELSE IF special /\ host = <<>>
        THEN [kind |-> "TypeError"]
        ELSE [kind |-> "url", protocol |-> scheme \o <<":">>, hostname |-> host]

(* /^172\.(1[6-9]|2[0-9]|3[0-1])\./ *)
InPrivate172(hostname) ==
    /\ StartsWith(hostname, <<"1", "7", "2", ".">>)
    /\ Len(hostname) >= 7
    /\ hostname[7] = "."
    /\ \/ hostname[5] = "1" /\ hostname[6] \in {"6", "7", "8", "9"}
       \/ hostname[5] = "2" /\ hostname[6] \in {"0", "1", "2", "3", "4", "5", "6", "7", "8", "9"}
       \/ hostname[5] = "3" /\ hostname[6] \in {"0", "1"}

(* Validator.validateURL *)
ValidateURL(url) ==
    LET parsedUrl == ParseURL(url)
        hostname == parsedUrl.hostname
        localhost == <<"l", "o", "c", "a", "l", "h", "o", "s", "t">>
        loopback == <<"1", "2", "7", ".", "0", ".", "0", ".", "1">>
        anyAddress == <<"0", ".", "0", ".", "0", ".", "0">>
        isLocalhost ==
            \/ hostname = localhost
            \/ StartsWith(hostname, <<"1", "2", "7", ".">>)
            \/ hostname = anyAddress
            \/ hostname = <<"[", ":", ":", "1", "]">>
        isPrivateIP ==
            \/ StartsWith(hostname, <<"1", "0", ".">>)
            \/ StartsWith(hostname, <<"1", "9", "2", ".", "1", "6", "8", ".">>)
            \/ hostname = <<"1", "6", "9", ".", "2", "5", "4", ".", "1", "6", "9", ".", "2", "5", "4">>
            \/ InPrivate172(hostname)
    IN  IF url = <<>>
        THEN [isValid |-> FALSE, errors |-> <<"URL is required">>]
        ELSE IF parsedUrl.kind = "TypeError"
        THEN [isValid |-> FALSE, errors |-> <<"Invalid URL format">>]
        ELSE IF /\ parsedUrl.protocol # <<"h", "t", "t", "p", "s", ":">>
                /\ \/ parsedUrl.protocol # <<"h", "t", "t", "p", ":">>
                   \/ ~(hostname = localhost \/ hostname = loopback
                        \/ hostname = anyAddress)
        THEN [isValid |-> FALSE,
              errors |-> <<"Only HTTPS URLs are allowed (except http for localhost)">>]
        ELSE IF ~isLocalhost /\ isPrivateIP
        THEN [isValid |-> FALSE,
              errors |-> <<"Requests to internal/private IPs are not allowed">>]
        ELSE [isValid |-> TRUE, errors |-> <<>>]

Urls ==
    {<<>>,
     (* "https://github.com/a" *)
     <<"h", "t", "t", "p", "s", ":", "/", "/", "g", "i", "t", "h", "u",
       "b", ".", "c", "o", "m", "/", "a">>,
     (* "HTTPS://GitHub.com" *)
     <<"H", "T", "T", "P", "S", ":", "/", "/", "G", "i", "t", "H", "u",
       "b", ".", "c", "o", "m">>,
     (* "http://localhost:3000" *)
     <<"h", "t", "t", "p", ":", "/", "/", "l", "o", "c", "a", "l", "h",
       "o", "s", "t", ":", "3", "0", "0", "0">>,
     (* "http://example.com" *)
     <<"h", "t", "t", "p", ":", "/", "/", "e", "x", "a", "m", "p", "l",
       "e", ".", "c", "o", "m">>,
     (* "https://10.0.0.1" *)
     <<"h", "t", "t", "p", "s", ":", "/", "/", "1", "0", ".", "0", ".",
       "0", ".", "1">>,
     (* "https://172.16.0.1/x" *)
     <<"h", "t", "t", "p", "s", ":", "/", "/", "1", "7", "2", ".", "1",
       "6", ".", "0", ".", "1", "/", "x">>,
     (* "https://172.32.0.1" *)
     <<"h", "t", "t", "p", "s", ":", "/", "/", "1", "7", "2", ".", "3",
       "2", ".", "0", ".", "1">>,
     (* "https://192.168.1.1" *)
     <<"h", "t", "t", "p", "s", ":", "/", "/", "1", "9", "2", ".", "1",
       "6", "8", ".", "1", ".", "1">>,
     (* "https://169.254.169.254" *)
     <<"h", "t", "t", "p", "s", ":", "/", "/", "1", "6", "9", ".", "2",
       "5", "4", ".", "1", "6", "9", ".", "2", "5", "4">>,
     (* "https://127.0.0.1" *)
     <<"h", "t", "t", "p", "s", ":", "/", "/", "1", "2", "7", ".", "0",
       ".", "0", ".", "1">>,
     (* "ftp://x" *)
     <<"f", "t", "p", ":", "/", "/", "x">>,
     (* "mailto:a" *)
     <<"m", "a", "i", "l", "t", "o", ":", "a">>,
     (* "not a url" *)
     <<"n", "o", "t", " ", "a", " ", "u", "r", "l">>,
     (* "https://" *)
     <<"h", "t", "t", "p", "s", ":", "/", "/">>}

(* The calls made to the Validator.  exists says whether the file at       *)
(* filePath exists, which is what vscode.workspace.fs.stat would find; of  *)
(* the response to the second request only the status is read.             *)
InitValidator ==
    /\ \/ validatorCall \in
            [method : {"sanitizeFilePath"},
             filePath : StringsOver(PathAlphabet, MaxPathLen),
             workspaceRoot : WorkspaceRoots]
       \/ validatorCall \in
            [method : {"validateFilePath"}, filePath : FilePaths, exists : BOOLEAN]
       \/ validatorCall \in
            [method : {"validateShellInput", "sanitizeShellInput"},
             input : StringsOver(ShellAlphabet, MaxInputLen)]
       \/ validatorCall \in
            [method : {"validateGitHubToken"}, token : Tokens,
             userResponse : ApiResponses,
             repoResponse : {r \in ApiResponses :
                                r.kind = "response" =>
                                    r.email /\ r.remaining = Absent}]
       \/ validatorCall \in
            [method : {"validateNumericRange"},
             value : {NaN} \cup {IntVal(k) : k \in 0..MaxCommits},
             min : 0..MaxTime, max : 0..MaxCommits]
       \/ validatorCall \in [method : {"validateURL"}, url : Urls]
    /\ validatorResult = NoOutput
    /\ ExpertIdle
    /\ FileIdle
    /\ ReportIdle
    /\ CollabIdle
    /\ AnalysisIdle
    /\ RenderIdle
    /\ CommandsIdle
    /\ AssembleIdle
    /\ ConcurrentIdle
    /\ ExtensionIdle

Called(method) == validatorCall.method = method /\ validatorResult = NoOutput

RunSanitizeFilePath ==
    /\ Called("sanitizeFilePath")
    /\ validatorResult' =
          SanitizeFilePath(validatorCall.filePath, validatorCall.workspaceRoot)
    /\ UNCHANGED <<validatorCall, besidesValidator>>

RunValidateFilePath ==
    /\ Called("validateFilePath")
    /\ validatorResult' = ValidateFilePath(validatorCall.filePath)
    /\ UNCHANGED <<validatorCall, besidesValidator>>

RunValidateShellInput ==
    /\ Called("validateShellInput")
    /\ validatorResult' = ValidateShellInput(validatorCall.input)
    /\ UNCHANGED <<validatorCall, besidesValidator>>

RunSanitizeShellInput ==
    /\ Called("sanitizeShellInput")
    /\ validatorResult' =
          [kind |-> "returned", value |-> SanitizeShellInput(validatorCall.input)]
    /\ UNCHANGED <<validatorCall, besidesValidator>>

RunValidateGitHubToken ==
    /\ Called("validateGitHubToken")
    /\ validatorResult' =
          ValidateGitHubToken(validatorCall.token, validatorCall.userResponse,
                              validatorCall.repoResponse)
    /\ UNCHANGED <<validatorCall, besidesValidator>>

RunValidateNumericRange ==
    /\ Called("validateNumericRange")
    /\ validatorResult' =
          ValidateNumericRange(validatorCall.value, validatorCall.min,
                               validatorCall.max)
    /\ UNCHANGED <<validatorCall, besidesValidator>>

RunValidateURL ==
    /\ Called("validateURL")
    /\ validatorResult' = ValidateURL(validatorCall.url)
    /\ UNCHANGED <<validatorCall, besidesValidator>>

NextValidator ==
    \/ RunSanitizeFilePath
    \/ RunValidateFilePath
    \/ RunValidateShellInput
    \/ RunSanitizeShellInput
    \/ RunValidateGitHubToken
    \/ RunValidateNumericRange
    \/ RunValidateURL

SpecValidator == InitValidator /\ [][NextValidator]_vars

----------------------------------------------------------------------------
(* Properties *)

Returned == pc = "returned"
Profiles == output.expertiseScores
Hundred == IntVal(100)
(* Math.round of n / d: the nearest integer, halves rounded up *)
Round(n, d) == (2 * n + d) \div (2 * d)

(* C1 (as claimed): every contributor's expertisePercent is the integer    *)
(* round(100 * commitCount / maxCommitCount), maxCommitCount being the     *)
(* largest commitCount of the snapshot.  The task leaves the score         *)
(* unrounded, so this fails whenever maxCommitCount does not divide        *)
(* 100 * commitCount.                                                      *)
C1_ExpertisePercentIsRounded ==
    Returned =>
        \A i \in DOMAIN Profiles :
            Profiles[i].score =
                IntVal(Round(100 * sorted[i].commits, TopCommits(contributors)))

(* C2: in every returned analysis each profile has                         *)
(* 0 <= expertisePercent <= 100, and the profiles with expertisePercent    *)
(* = 100 are a non-empty set, exactly the contributors whose commitCount   *)
(* is the maximum.                                                         *)
C2_ScoreBounded ==
    Returned =>
        LET top == {Profiles[i].name : i \in {j \in DOMAIN Profiles :
                                                Profiles[j].score = Hundred}}
        IN  /\ \A i \in DOMAIN Profiles :
                /\ FracLeq(IntVal(0), Profiles[i].score)
                /\ FracLeq(Profiles[i].score, Hundred)
            /\ top # {}
            /\ top = {contributors[i].name : i \in {j \in DOMAIN contributors :
                          contributors[j].commits = TopCommits(contributors)}}

(* Reached: three contributors, two tied at the top and one below. *)
C2_Witness ==
    /\ Returned
    /\ Len(contributors) = 3
    /\ Cardinality({i \in DOMAIN Profiles : Profiles[i].score = Hundred}) = 2
    /\ \E i \in DOMAIN Profiles : FracLess(Profiles[i].score, Hundred)

(* C3: a single contributor with N >= 1 commits gives exactly one profile, *)
(* whose expertisePercent is 100, and a riskScore of 100.                  *)
C3_SingleContributor ==
    (Returned /\ Len(contributors) = 1) =>
        /\ Len(Profiles) = 1
        /\ output.totalExperts = 1
        /\ Profiles[1].score = Hundred
        /\ Profiles[1].name = contributors[1].name
        /\ riskScore # NoRisk => riskScore = Hundred

(* Reached: one contributor with several commits, scored and evaluated. *)
C3_Witness ==
    /\ Returned
    /\ Len(contributors) = 1
    /\ contributors[1].commits > 1
    /\ riskScore = Hundred

(* C4 (as claimed): on zero contributors the run fails with                *)
(* EmptyActivityError and yields no analysis.  The task fails, but with    *)
(* the TypeError of reading sorted[0].name.                                *)
C4_EmptyFailsWithEmptyActivityError ==
    (Len(contributors) = 0 /\ pc # "pending") =>
        /\ pc = "threw"
        /\ error = "EmptyActivityError"
        /\ output = NoOutput

(* Profile a (score ps) stands before profile b (score pt) in the order    *)
(* of spec section 4.1.                                                    *)
RankedBefore(ps, pt, a, b) ==
    \/ FracLess(pt, ps)
    \/ /\ ps = pt
       /\ \/ a.commits > b.commits
          \/ /\ a.commits = b.commits
             /\ \/ a.lastEdit > b.lastEdit
                \/ /\ a.lastEdit = b.lastEdit
                   /\ NameRank(a.name) < NameRank(b.name)

(* C6 (as claimed): expertProfiles is totally ordered, descending by       *)
(* expertisePercent, then descending by contributions, then descending by  *)
(* lastCommitTimestamp, then ascending by identity.  The sort compares     *)
(* commit counts only, so tied contributors keep their input order.        *)
C6_ProfilesTotallyOrdered ==
    Returned =>
        /\ sorted[1].commits = TopCommits(contributors)
        /\ \A i, j \in DOMAIN Profiles :
              i < j => RankedBefore(Profiles[i].score, Profiles[j].score,
                                    sorted[i], sorted[j])

(* C7: the result has exactly one profile per contributor of the input,    *)
(* none dropped and none duplicated, and a profile's contributions are     *)
(* that contributor's commitCount.                                         *)
C7_OneProfilePerContributor ==
    Returned =>
        /\ output.totalExperts = Len(contributors)
        /\ Len(Profiles) = Len(contributors)
        /\ Len(sorted) = Len(contributors)
        /\ \A k \in DOMAIN contributors :
              /\ Cardinality({i \in DOMAIN Profiles :
                                 Profiles[i].name = contributors[k].name}) = 1
              /\ \A i \in DOMAIN Profiles :
                    Profiles[i].name = contributors[k].name =>
                        /\ sorted[i].name = contributors[k].name
                        /\ sorted[i].commits = contributors[k].commits

(* Reached: three contributors, two of them with the same commit count,    *)
(* given in an order the sort has to change.                               *)
C7_Witness ==
    /\ Returned
    /\ Len(contributors) = 3
    /\ contributors[1].commits < contributors[2].commits
    /\ contributors[2].commits = contributors[3].commits
    /\ Len(Profiles) = 3

Mapped == filePc = "mapped"

(* C8: totalFiles is the number of distinct paths of the input map, and    *)
(* fileExpertise has exactly one entry for each of those paths and none    *)
(* for any other path.                                                     *)
C8_OneEntryPerPath ==
    Mapped =>
        LET paths == {fileChanges[i].filePath : i \in DOMAIN fileChanges}
        IN  /\ totalFiles = Cardinality(paths)
            /\ {fileExpertise[i].filePath : i \in DOMAIN fileExpertise} = paths
            /\ \A q \in paths :
                  Cardinality({i \in DOMAIN fileExpertise :
                                  fileExpertise[i].filePath = q}) = 1

(* Reached: a snapshot with two files, mapped. *)
C8_Witness ==
    /\ Mapped
    /\ Len(fileChanges) = 2
    /\ totalFiles = 2
    /\ Len(fileExpertise) = 2

(* C9 (as claimed): every file's experts are sorted non-increasing by      *)
(* per-file score, equal scores by more recent lastCommitTimestamp first   *)
(* and then by identity.  The sort compares commit counts only, so equal   *)
(* scores keep their input order.                                          *)
C9_FileExpertsRanked ==
    fileTask.kind = "ok" =>
        LET e == fileTask.sorted
        IN  /\ fileTask.expertName = e[1].name
            /\ \A i, j \in DOMAIN e :
                  i < j =>
                      \/ e[i].commits > e[j].commits
                      \/ /\ e[i].commits = e[j].commits
                         /\ \/ e[i].lastEdit > e[j].lastEdit
                            \/ /\ e[i].lastEdit = e[j].lastEdit
                               /\ NameRank(e[i].name) < NameRank(e[j].name)

Generated == reportPc = "generated"
Emitted(r) == \E i \in DOMAIN recommendations : recommendations[i] = r
GeneralEmitted == \E k \in DOMAIN GeneralAdvice : Emitted(GeneralAdvice[k])
RiskRuleHolds == OrZero(teamHealthMetrics.riskScore) > RiskThreshold
SharingRuleHolds == OrZero(teamHealthMetrics.knowledgeSharing) < SharingThreshold

(* C10: at least one insight is always emitted; the general fallback set   *)
(* is emitted exactly when no threshold rule fired, whole, and never       *)
(* together with a rule-derived insight.                                   *)
C10_InsightsNonEmpty ==
    Generated =>
        /\ Len(recommendations) >= 1
        /\ GeneralEmitted <=> (~RiskRuleHolds /\ ~SharingRuleHolds)
        /\ GeneralEmitted => recommendations = GeneralAdvice
        /\ ~(GeneralEmitted /\ (Emitted(RiskAdvice) \/ Emitted(SharingAdvice)))

(* Reached: metrics on which neither rule fires, so the fallback is out. *)
C10_Witness ==
    /\ Generated
    /\ teamHealthMetrics.riskScore = RiskThreshold
    /\ teamHealthMetrics.knowledgeSharing = SharingThreshold
    /\ recommendations = GeneralAdvice

(* C11: the two threshold rules fire independently of each other.  The     *)
(* risk insight is emitted exactly when riskScore > 70 (so not at 70), the *)
(* collaboration insight exactly when knowledgeSharing < 50 (so not at     *)
(* 50), and both are emitted when both conditions hold.  A metric the      *)
(* analysis does not carry counts as 0.                                    *)
C11_RulesFireIndependently ==
    Generated =>
        LET risk == teamHealthMetrics.riskScore
            sharing == teamHealthMetrics.knowledgeSharing
        IN  /\ Emitted(RiskAdvice) <=> (risk # Undefined /\ risk > 70)
            /\ Emitted(SharingAdvice) <=> (sharing = Undefined \/ sharing < 50)
            /\ (risk # Undefined /\ risk > 70 /\ sharing # Undefined /\ sharing < 50)
                  => recommendations = <<RiskAdvice, SharingAdvice>>

(* Reached: the risk rule one above its threshold and the collaboration    *)
(* rule exactly on its threshold, so only the first has fired.             *)
C11_Witness ==
    /\ Generated
    /\ teamHealthMetrics.riskScore = 71
    /\ teamHealthMetrics.knowledgeSharing = 50
    /\ recommendations = <<RiskAdvice>>

(* Position of insight r in the output, 0 when it is not there. *)
IndexOf(r) ==
    IF Emitted(r)
    THEN CHOOSE i \in DOMAIN recommendations :
             /\ recommendations[i] = r
             /\ \A j \in 1..(i - 1) : recommendations[j] # r
    ELSE 0

(* C12: the insights come out in the order of the rule table: whenever     *)
(* the risk rule and the collaboration rule both fire, the risk insight    *)
(* stands before the collaboration insight, each of them once.             *)
C12_RuleTableOrder ==
    (Generated /\ RiskRuleHolds /\ SharingRuleHolds) =>
        /\ IndexOf(RiskAdvice) >= 1
        /\ IndexOf(RiskAdvice) < IndexOf(SharingAdvice)
        /\ Cardinality({i \in DOMAIN recommendations :
                           recommendations[i] \in {RiskAdvice, SharingAdvice}}) = 2

(* Reached: the highest risk with no knowledge sharing at all, both        *)
(* insights out.                                                           *)
C12_Witness ==
    /\ Generated
    /\ teamHealthMetrics.riskScore = MaxMetric
    /\ teamHealthMetrics.knowledgeSharing = 0
    /\ Emitted(RiskAdvice)
    /\ Emitted(SharingAdvice)

(* C13: with two or more contributors, riskScore is                        *)
(* 100 * (topShare - fairShare) / (1 - fairShare) clamped to 0..100,       *)
(* topShare being the largest share of the total commits and fairShare     *)
(* being 1 / contributorCount; it is 0 when all contributors have equal    *)
(* commit counts, and it always lies in 0..100.  With n contributors,      *)
(* t total commits and top commit count c the unclamped value is           *)
(* 100 * (n * c - t) / (t * (n - 1)).                                      *)
C13_RiskScoreFormula ==
    (riskScore # NoRisk /\ Len(contributors) >= 2) =>
        LET n == Len(contributors)
            t == SumCommits(contributors)
            c == TopCommits(contributors)
            raw == [num |-> 100 * (n * c - t), den |-> t * (n - 1)]
            allEqual == \A i, j \in DOMAIN contributors :
                           contributors[i].commits = contributors[j].commits
        IN  /\ riskScore.den > 0
            /\ FracLeq(IntVal(0), riskScore)
            /\ FracLeq(riskScore, Hundred)
            /\ IF raw.num < 0 THEN riskScore = IntVal(0)
               ELSE IF raw.num > 100 * raw.den THEN riskScore = Hundred
               ELSE riskScore.num * raw.den = raw.num * riskScore.den
            /\ allEqual => riskScore = IntVal(0)
            /\ riskScore = IntVal(0) => allEqual

(* Reached: three contributors with unequal commit counts, the risk        *)
(* strictly between the two ends of the scale.                             *)
C13_Witness ==
    /\ riskScore # NoRisk
    /\ Len(contributors) = 3
    /\ contributors[1].commits # contributors[2].commits
    /\ FracLess(IntVal(0), riskScore)
    /\ FracLess(riskScore, Hundred)

(* The commits of the input whose lower-cased message contains at least    *)
(* one of the five keywords of spec section 4.4, each commit once.         *)
SharingKeywords ==
    {<<"r", "e", "v", "i", "e", "w">>,
     <<"p", "a", "i", "r">>,
     <<"m", "e", "r", "g", "e">>,
     <<"t", "h", "a", "n", "k", "s">>,
     <<"h", "e", "l", "p", "e", "d">>}
MatchingCommits ==
    {i \in DOMAIN commitMessages :
        \E k \in SharingKeywords : Includes(ToLowerCase(commitMessages[i]), k)}

(* C14 (as claimed): knowledgeSharing is round(100 * m / n), m being the   *)
(* number of commits whose lower-cased message contains at least one of    *)
(* review, pair, merge, thanks, helped (a commit counted once) and n the   *)
(* number of commits; an integer in 0..100.  The task returns m / n        *)
(* itself, neither scaled nor rounded, and m is counted over the keywords  *)
(* review, pair, thanks, helped, team, merged.                             *)
C14_KnowledgeSharingRounded ==
    (collabAnalysis.kind = "ok" /\ Len(commitMessages) >= 1) =>
        collabAnalysis.collaborationScore =
            IntVal(Round(100 * Cardinality(MatchingCommits), Len(commitMessages)))

Analysed == analysisTask.kind = "ok"
Specializations == analysisTask.specializations
(* The commits whose message matches the pattern of a label. *)
CommitsMatching(label) ==
    {i \in DOMAIN repositoryCommits :
        \E k \in DOMAIN SpecializationRules :
            /\ SpecializationRules[k].label = label
            /\ Includes(ToLowerCase(repositoryCommits[i].message),
                        SpecializationRules[k].keyword)}
(* The timestamp of the oldest commit matching a label. *)
FirstMatch(label) ==
    CHOOSE t \in {repositoryCommits[i].date : i \in CommitsMatching(label)} :
        \A i \in CommitsMatching(label) : t <= repositoryCommits[i].date

(* C15 (as claimed): the specializations contain a label exactly when at   *)
(* least one commit matches its pattern, no label twice, ordered by the    *)
(* timestamp of each label's first matching commit, oldest first,          *)
(* whatever the order of the commits in the input; with no match the       *)
(* result is the empty set and not an error.  The task adds labels in the  *)
(* order in which the input array holds the commits and never reads        *)
(* commit.date.                                                            *)
C15_SpecializationsByFirstMatch ==
    analysisTask # NoOutput =>
        /\ Analysed
        /\ \A k \in DOMAIN SpecializationRules :
              (\E i \in DOMAIN Specializations :
                   Specializations[i] = SpecializationRules[k].label)
                  <=> CommitsMatching(SpecializationRules[k].label) # {}
        /\ \A i, j \in DOMAIN Specializations :
              i # j => Specializations[i] # Specializations[j]
        /\ \A i, j \in DOMAIN Specializations :
              i < j => FirstMatch(Specializations[i]) <= FirstMatch(Specializations[j])

CoreOfProfile(e) ==
    [name |-> e.name, expertise |-> e.expertise,
     contributions |-> e.contributions, lastCommit |-> e.lastCommit]
CoreOf(a) ==
    [expertProfiles |-> [i \in DOMAIN a.expertProfiles |->
                            CoreOfProfile(a.expertProfiles[i])],
     fileExpertise |-> [i \in DOMAIN a.fileExpertise |->
                           [filePath |-> a.fileExpertise[i].filePath,
                            experts |-> [j \in DOMAIN a.fileExpertise[i].experts |->
                                CoreOfProfile(a.fileExpertise[i].experts[j])]]],
     teamHealthMetrics |-> a.teamHealthMetrics]
NoNarrative(e) ==
    /\ e.communicationStyle = Absent
    /\ e.workloadIndicator = Absent
    /\ e.collaborationStyle = Absent

C18_FindExpertsIsProjection ==
    /\ [](findPc = "done" =>
            LET hits == IF lastAnalysis.kind = "analysis"
                        THEN {i \in DOMAIN lastAnalysis.fileExpertise :
                                 lastAnalysis.fileExpertise[i].filePath = findPath}
                        ELSE {}
            IN  /\ Cardinality(hits) <= 1
                /\ \A i \in hits :
                      /\ Len(lastAnalysis.fileExpertise[i].experts) > 0
                           => displayed.kind = "quickPick"
                      /\ displayed.items = lastAnalysis.fileExpertise[i].experts
                /\ hits = {} => displayed = [kind |-> "information", items |-> <<>>])
    /\ [][(FindExpertCommand \/ FindExpertDisplay) =>
            /\ lastAnalysis' = lastAnalysis
            /\ token' = token
            /\ analysis' = analysis]_vars

(* Reached: the experts of a file shown, two of them, stored in an order   *)
(* that is not the order of their identities.                              *)
C18_Witness ==
    /\ findPc = "done"
    /\ displayed.kind = "quickPick"
    /\ Len(displayed.items) = 2
    /\ NameRank(displayed.items[1].name) > NameRank(displayed.items[2].name)
    /\ Len(lastAnalysis.fileExpertise) = 2

C20_CallsIndependent ==
    /\ [][\A a \in Snapshots : arrays'[a] = arrays[a]]_vars
    /\ [](\A c \in Calls :
            /\ calls[c].pc \in {"returned", "threw"} =>
                  calls[c].output = ExpertTask(given[calls[c].input])
            /\ arrays[calls[c].input] = given[calls[c].input])

(* Reached: both calls on the same snapshot, which is not in sorted        *)
(* order; the first has returned while the second has only copied.         *)
C20_Witness ==
    /\ calls["first"].input = calls["second"].input
    /\ given[calls["first"].input] # SortByCommits(given[calls["first"].input])
    /\ calls["first"].pc = "returned"
    /\ calls["second"].pc = "copied"

----------------------------------------------------------------------------
(* Claims on the extension's commands *)

Run(r) == runs[r]
PastTokenCheck(r) == Run(r).pc \notin {"idle", "ensuringToken"}

(* C21: a GitHub token is optional: when no token is stored, a run of the  *)
(* analyze-repository command still starts the repository analysis (and,   *)
(* when the analyzer yields an analysis, shows it).                        *)
C21_TokenOptional ==
    \A r \in AnalyzeRuns :
        ~token /\ PastTokenCheck(r) => Run(r).steps # <<>>

(* C22: with a last analysis the show-team-overview command shows exactly  *)
(* that analysis and starts no run of the analysis; without one, a run is  *)
(* started only on the answer 'Analyze Repository', never on 'Cancel' or   *)
(* on dismissal.                                                           *)
C22_OverviewWithoutRecomputation ==
    /\ [][ShowTeamOverview =>
            /\ runs' = runs
            /\ lastAnalysis' = lastAnalysis
            /\ lastAnalysis # NoOutput =>
                  webview' = lastAnalysis /\ overviewPc' = "shown"
            /\ lastAnalysis = NoOutput =>
                  webview' = webview /\ overviewPc' = "prompting"]_vars
    /\ [][OverviewAnswer =>
            /\ lastAnalysis' = lastAnalysis
            /\ webview' = webview
            /\ overviewChoice' # "Analyze Repository" => runs' = runs
            /\ overviewChoice' = "Analyze Repository" =>
                  \E r \in AnalyzeRuns :
                      /\ runs[r].pc \in Finished
                      /\ runs'[r].pc = "ensuringToken"
                      /\ \A q \in AnalyzeRuns \ {r} : runs'[q] = runs[q]]_vars

C22_Witness ==
    /\ overviewPc = "done"
    /\ overviewChoice = "dismissed"
    /\ \A r \in AnalyzeRuns : Run(r).pc = "idle"

IsPrefix(s, t) == Len(s) <= Len(t) /\ s = SubSeq(t, 1, Len(s))
AnalyzeSteps == <<"analyze", "save", "refresh", "show">>

C27_TreeShowsLastSaved ==
    (\A r \in AnalyzeRuns : Run(r).pc = "done" /\ Run(r).steps = AnalyzeSteps)
        => tree = lastAnalysis

----------------------------------------------------------------------------
(* Claims on the experts listed for a file *)

NamesIn(s) == {s[k].name : k \in DOMAIN s}

(* C23: for every file of the result, the contributors in its experts list *)
(* are exactly the contributors of that file in the input map, each listed *)
(* once, so the list is never empty.                                       *)
C23_ExpertsAreTheFileContributors ==
    Mapped =>
        \A i \in DOMAIN fileExpertise :
            \E j \in DOMAIN fileChanges :
                /\ fileChanges[j].filePath = fileExpertise[i].filePath
                /\ NamesIn(fileExpertise[i].experts) = NamesIn(fileChanges[j].contributors)
                /\ Len(fileExpertise[i].experts) = Len(fileChanges[j].contributors)
                /\ Len(fileExpertise[i].experts) >= 1

(* Reached: a mapped snapshot with a file two people touched and a file    *)
(* one person touched.                                                     *)
C23_Witness ==
    /\ Mapped
    /\ \E i \in DOMAIN fileExpertise : Len(fileExpertise[i].experts) = 2
    /\ \E i \in DOMAIN fileExpertise : Len(fileExpertise[i].experts) = 1

----------------------------------------------------------------------------
(* Claims on the gates of the find-expert-for-file command *)

----------------------------------------------------------------------------
(* Claims on the Validator *)

ValidatorReturned(method) == validatorCall.method = method /\ validatorResult # NoOutput

(* The segments of a path that are not empty. *)
NamedSegments(p) == SelectSeq(Segments(p), LAMBDA seg : seg # <<>>)

(* C24: sanitizeFilePath returns an absolute path that is the resolved     *)
(* workspace root or lies beneath it, segment by segment (a sibling whose  *)
(* name only begins with the root's name is not beneath it), or throws;    *)
(* when the path resolves outside the root, by ".." or by being an         *)
(* absolute path elsewhere, it throws 'Path traversal detected'.           *)
C24_SanitizedPathWithinRoot ==
    ValidatorReturned("sanitizeFilePath") =>
        LET root == PathResolve(<<validatorCall.workspaceRoot>>)
            target == PathResolve(<<root, validatorCall.filePath>>)
            within == IsPrefix(NamedSegments(root), NamedSegments(target))
        IN  /\ validatorResult.kind \in {"returned", "threw"}
            /\ validatorResult.kind = "returned" =>
                  /\ within
                  /\ validatorResult.value = target
                  /\ IsAbsolute(validatorResult.value)
                  /\ \/ validatorResult.value = root
                     \/ StartsWith(validatorResult.value, WithSep(root))
            /\ ~within =>
                  validatorResult =
                      [kind |-> "threw", message |-> "Path traversal detected"]

(* Reached: root /w and the path ../w2, a sibling of the root, rejected. *)
C24_Witness ==
    /\ ValidatorReturned("sanitizeFilePath")
    /\ validatorCall.workspaceRoot = <<"/", "w">>
    /\ validatorCall.filePath = <<".", ".", "/", "w", "2">>
    /\ validatorResult.kind = "threw"

NonBlank(p) == \E i \in DOMAIN p : p[i] \notin Whitespace

(* C25: validateFilePath returns isValid == true only for a non-blank path *)
(* without ".." whose file exists; for such a path whose file does not     *)
(* exist it returns isValid == false with the error 'File does not exist   *)
(* or is not accessible'.                                                  *)
C25_ValidPathExists ==
    ValidatorReturned("validateFilePath") =>
        /\ validatorResult.isValid =>
              /\ NonBlank(validatorCall.filePath)
              /\ ~Includes(validatorCall.filePath, DotDot)
              /\ validatorCall.exists
        /\ (/\ NonBlank(validatorCall.filePath)
            /\ ~Includes(validatorCall.filePath, DotDot)
            /\ ~validatorCall.exists) =>
              validatorResult =
                  [isValid |-> FALSE,
                   errors |-> <<"File does not exist or is not accessible">>]

HasLineBreak(s) == \E i \in DOMAIN s : s[i] \in {"\n", "\r"}

(* C29: what sanitizeShellInput returns is empty or accepted by            *)
(* validateShellInput; sanitizing what it returned changes nothing; and    *)
(* validateShellInput rejects every input with a newline or a carriage     *)
(* return in it.                                                           *)
C29_ShellSanitizerAgreesWithValidator ==
    /\ ValidatorReturned("sanitizeShellInput") =>
          /\ \/ validatorResult.value = <<>>
             \/ ValidateShellInput(validatorResult.value).isValid
          /\ SanitizeShellInput(validatorResult.value) = validatorResult.value
    /\ ValidatorReturned("validateShellInput") =>
          (HasLineBreak(validatorCall.input) => ~validatorResult.isValid)

ValidateMethods ==
    {"validateGitHubToken", "validateFilePath", "validateNumericRange",
     "validateURL", "validateShellInput"}

(* C30: every result of a validate method of the Validator has no error    *)
(* when isValid is true and at least one error when isValid is false.      *)
C30_ValidIffNoErrors ==
    \A method \in ValidateMethods :
        ValidatorReturned(method) =>
            /\ validatorResult.isValid => validatorResult.errors = <<>>
            /\ ~validatorResult.isValid => Len(validatorResult.errors) >= 1

====
